---------------------------- MODULE Spec2Model ----------------------------
(***************************************************************************)
(* Layout-aware convocation-list parser (scripts/extract.py).              *)
(*                                                                         *)
(* Text is modelled as a sequence of one-character strings, so that the    *)
(* regular expressions of the source are translated character by           *)
(* character.  Every pattern operator below computes what Python's `re`    *)
(* computes for the pattern it names (first alternative first, greedy      *)
(* before lazy).                                                           *)
(***************************************************************************)
EXTENDS Integers, Sequences, FiniteSets, TLC

\* ------------------------------------------------------------------ text

UpperLetters == <<"A","B","C","D","E","F","G","H","I","J","K","L","M","N","O","P","Q","R","S","T","U","V","W","X","Y","Z">>
LowerLetters == <<"a","b","c","d","e","f","g","h","i","j","k","l","m","n","o","p","q","r","s","t","u","v","w","x","y","z">>
Digits == {"0","1","2","3","4","5","6","7","8","9"}
\* \s of the patterns, as far as the model's alphabet goes
Whitespace == {" ", "\t", "\n"}

Range(s) == {s[i] : i \in 1..Len(s)}
UpperSet == Range(UpperLetters)
LowerSet == Range(LowerLetters)
IsUpper(c) == c \in UpperSet
IsLower(c) == c \in LowerSet
IsAlpha(c) == IsUpper(c) \/ IsLower(c)
IsDigit(c) == c \in Digits
IsSpace(c) == c \in Whitespace

\* str.upper / str.lower on one character
ToUpper == [c \in LowerSet |-> UpperLetters[CHOOSE i \in 1..26 : LowerLetters[i] = c]]
ToLower == [c \in UpperSet |-> LowerLetters[CHOOSE i \in 1..26 : UpperLetters[i] = c]]
UpperChar(c) == IF IsLower(c) THEN ToUpper[c] ELSE c
LowerChar(c) == IF IsUpper(c) THEN ToLower[c] ELSE c
Upper(s) == [i \in 1..Len(s) |-> UpperChar(s[i])]
Lower(s) == [i \in 1..Len(s) |-> LowerChar(s[i])]

\* s[from..] (1-based), the empty text when from is past the end
From(s, from) == SubSeq(s, from, Len(s))

\* the position after the run of whitespace starting at pos (greedy \s*)
RECURSIVE SkipSpace(_, _)
SkipSpace(s, pos) ==
    IF pos <= Len(s) /\ IsSpace(s[pos]) THEN SkipSpace(s, pos + 1) ELSE pos

\* lit occurs at pos of s, compared case-insensitively (re.I)
LitAtI(s, pos, lit) ==
    /\ pos >= 1
    /\ pos + Len(lit) - 1 <= Len(s)
    /\ \A i \in 1..Len(lit) : UpperChar(s[pos + i - 1]) = UpperChar(lit[i])

\* `lit in s`
Contains(s, lit) ==
    \E p \in 1..(Len(s) - Len(lit) + 1) :
        \A i \in 1..Len(lit) : s[p + i - 1] = lit[i]

\* str.split(): the maximal runs of non-whitespace, in order
RECURSIVE SplitFrom(_, _, _)
SplitFrom(s, pos, cur) ==
    IF pos > Len(s) THEN (IF cur = <<>> THEN <<>> ELSE <<cur>>)
    ELSE IF IsSpace(s[pos])
         THEN (IF cur = <<>> THEN <<>> ELSE <<cur>>) \o SplitFrom(s, pos + 1, <<>>)
         ELSE SplitFrom(s, pos + 1, Append(cur, s[pos]))
Split(s) == SplitFrom(s, 1, <<>>)

\* " ".join(tokens)
RECURSIVE Join(_)
Join(toks) ==
    IF toks = <<>> THEN <<>>
    ELSE IF Len(toks) = 1 THEN toks[1]
    ELSE toks[1] \o <<" ">> \o Join(Tail(toks))

\* norm_space: re.sub(r"\s+", " ", s).strip()
norm_space(s) == Join(Split(s))

\* titlecase_name: lower-case, split on - and ' keeping them, capitalize each
\* part: the first character of the text and every character right after a
\* hyphen or an apostrophe becomes upper case, everything else lower case.
titlecase_name(s) ==
    [i \in 1..Len(s) |->
        IF i = 1 \/ s[i - 1] \in {"-", "'"}
        THEN UpperChar(LowerChar(s[i]))
        ELSE LowerChar(s[i])]

\* ------------------------------------------------------------- patterns

\* FACULTY_PAT.match: ^FACULTY\s+OF\s+.+ (re.I).  After OF the greedy \s+ gives
\* back whitespace until one character that is not a newline is left for .+
FACULTY_PAT(s) ==
    /\ LitAtI(s, 1, <<"F","A","C","U","L","T","Y">>)
    /\ LET p1 == SkipSpace(s, 8)
       IN /\ p1 > 8
          /\ LitAtI(s, p1, <<"O","F">>)
          /\ \E k \in 1..Len(s) :
                /\ p1 + 2 + k <= Len(s)
                /\ \A j \in 0..(k - 1) : IsSpace(s[p1 + 2 + j])
                /\ s[p1 + 2 + k] # "\n"

\* the greedy run [A-Za-z\.]* from pos
RECURSIVE SkipAlphaDot(_, _)
SkipAlphaDot(s, pos) ==
    IF pos <= Len(s) /\ (IsAlpha(s[pos]) \/ s[pos] = ".")
    THEN SkipAlphaDot(s, pos + 1) ELSE pos

\* first alternative of QUALI_PAT's group 1, B\.?\s?[A-Z][A-Za-z\.]* (re.I):
\* the position after it, 0 when it does not match at the start of s
QualiGenericEnd(s) ==
    IF Len(s) >= 1 /\ UpperChar(s[1]) = "B"
    THEN LET p1 == IF Len(s) >= 2 /\ s[2] = "." THEN 3 ELSE 2
             p2 == IF p1 <= Len(s) /\ IsSpace(s[p1]) THEN p1 + 1 ELSE p1
         IN IF p2 <= Len(s) /\ IsAlpha(s[p2]) THEN SkipAlphaDot(s, p2 + 1) ELSE 0
    ELSE 0

\* the literal alternatives of QUALI_PAT's group 1, in the pattern's order
QualiLiterals ==
    << <<"B","S","c">>, <<"B",".","E","n","g",".">>, <<"B","E","n","g">>, <<"H","N","D">>, <<"N","D">>, <<"P","G","D">>, <<"M","S","c">>, <<"M","B","A">>, <<"P","h","D">> >>

\* the position after group 1 of QUALI_PAT, 0 when the pattern does not match:
\* the first alternative that matches wins, since the rest of the pattern,
\* [^\n]*?(?:\(([^)]+)\))?, matches the empty text
QualiGroup1End(s) ==
    IF QualiGenericEnd(s) # 0 THEN QualiGenericEnd(s)
    ELSE IF \E i \in 1..Len(QualiLiterals) : LitAtI(s, 1, QualiLiterals[i])
         THEN LET i == CHOOSE i \in 1..Len(QualiLiterals) :
                          /\ LitAtI(s, 1, QualiLiterals[i])
                          /\ \A j \in 1..(i - 1) : ~LitAtI(s, 1, QualiLiterals[j])
              IN Len(QualiLiterals[i]) + 1
         ELSE 0

\* the greedy run [^)]* from pos
RECURSIVE SkipToParen(_, _)
SkipToParen(s, pos) ==
    IF pos <= Len(s) /\ s[pos] # ")" THEN SkipToParen(s, pos + 1) ELSE pos

\* group 2 of QUALI_PAT when group 1 ends before pos (<<>> for None).  The lazy
\* [^\n]*? first takes nothing and the optional group is then tried at pos
\* only: it matches there or matches empty, and either way the pattern has
\* matched, so the lazy run is never extended to reach a later parenthesis.
QualiGroup2(s, pos) ==
    IF pos <= Len(s) /\ s[pos] = "("
    THEN LET q == SkipToParen(s, pos + 1)
         IN IF q > pos + 1 /\ q <= Len(s) THEN SubSeq(s, pos + 1, q - 1) ELSE <<>>
    ELSE <<>>

\* QUALI_PAT.match(line): [ok, g1, g2]
QUALI_PAT(s) ==
    LET e == QualiGroup1End(s)
    IN IF e = 0 THEN [ok |-> FALSE, g1 |-> <<>>, g2 |-> <<>>]
       ELSE [ok |-> TRUE, g1 |-> SubSeq(s, 1, e - 1), g2 |-> QualiGroup2(s, e)]

\* SESSION_PAT matches with its group 1 starting at i:
\* (\d{4}/\d{4}).{0,20}?ACADEMIC\s+SESSION (re.I)
SessionAt(s, i) ==
    /\ i + 8 <= Len(s)
    /\ \A j \in {0, 1, 2, 3, 5, 6, 7, 8} : IsDigit(s[i + j])
    /\ s[i + 4] = "/"
    /\ \E k \in 0..20 :
          /\ \A j \in 1..k : i + 8 + j <= Len(s) /\ s[i + 8 + j] # "\n"
          /\ LitAtI(s, i + 9 + k, <<"A","C","A","D","E","M","I","C">>)
          /\ LET p == SkipSpace(s, i + 17 + k)
             IN p > i + 17 + k /\ LitAtI(s, p, <<"S","E","S","S","I","O","N">>)

\* SESSION_PAT.search(line): group 1 of the leftmost match, <<>> when none
SESSION_PAT(s) ==
    IF \E i \in 1..Len(s) : SessionAt(s, i)
    THEN LET i == CHOOSE i \in 1..Len(s) :
                     SessionAt(s, i) /\ \A j \in 1..(i - 1) : ~SessionAt(s, j)
         IN SubSeq(s, i, i + 8)
    ELSE <<>>

\* parse_headings(line): the keys it returns (has) and their values
parse_headings(line) ==
    LET m == QUALI_PAT(line)
        ms == SESSION_PAT(line)
    IN [ faculty       |-> IF FACULTY_PAT(line) THEN norm_space(Upper(line)) ELSE <<>>,
         qualification |-> IF m.ok THEN norm_space(m.g1) ELSE <<>>,
         course        |-> IF m.ok /\ m.g2 # <<>> THEN norm_space(Upper(m.g2)) ELSE <<>>,
         session       |-> ms,
         has           |-> (IF FACULTY_PAT(line) THEN {"faculty"} ELSE {})
                           \cup (IF m.ok THEN {"qualification"} ELSE {})
                           \cup (IF m.ok /\ m.g2 # <<>> THEN {"course"} ELSE {})
                           \cup (IF ms # <<>> THEN {"session"} ELSE {}) ]

\* A pattern made of words separated by \s+ matches a whole text exactly when
\* the text neither starts nor ends with whitespace and splits into the words.
FullMatchWords(u, words) ==
    /\ u # <<>>
    /\ ~IsSpace(u[1]) /\ ~IsSpace(u[Len(u)])
    /\ Split(u) = words

\* GRADE_MAP in insertion order: the word sequences each pattern matches, and
\* its label
GRADE_MAP ==
    << [pats |-> { << <<"F","I","R","S","T">>, <<"C","L","A","S","S">> >>, << <<"F","I","R","S","T">>, <<"C","L","A","S","S">>, <<"H","O","N","O","U","R","S">> >> },
        lab  |-> <<"F","I","R","S","T"," ","C","L","A","S","S">>],
       [pats |-> { << <<"S","E","C","O","N","D">>, <<"C","L","A","S","S">>, <<"U","P","P","E","R">> >>,
                   << <<"S","E","C","O","N","D">>, <<"C","L","A","S","S">>, <<"U","P","P","E","R">>, <<"D","I","V","I","S","I","O","N">> >>,
                   << <<"S","E","C","O","N","D">>, <<"C","L","A","S","S">>, <<"H","O","N","O","U","R","S">>, <<"U","P","P","E","R">> >>,
                   << <<"S","E","C","O","N","D">>, <<"C","L","A","S","S">>, <<"H","O","N","O","U","R","S">>, <<"U","P","P","E","R">>, <<"D","I","V","I","S","I","O","N">> >> },
        lab  |-> <<"S","E","C","O","N","D"," ","C","L","A","S","S"," ","U","P","P","E","R">>],
       [pats |-> { << <<"S","E","C","O","N","D">>, <<"C","L","A","S","S">>, <<"L","O","W","E","R">> >>,
                   << <<"S","E","C","O","N","D">>, <<"C","L","A","S","S">>, <<"L","O","W","E","R">>, <<"D","I","V","I","S","I","O","N">> >>,
                   << <<"S","E","C","O","N","D">>, <<"C","L","A","S","S">>, <<"H","O","N","O","U","R","S">>, <<"L","O","W","E","R">> >>,
                   << <<"S","E","C","O","N","D">>, <<"C","L","A","S","S">>, <<"H","O","N","O","U","R","S">>, <<"L","O","W","E","R">>, <<"D","I","V","I","S","I","O","N">> >> },
        lab  |-> <<"S","E","C","O","N","D"," ","C","L","A","S","S"," ","L","O","W","E","R">>],
       [pats |-> { << <<"T","H","I","R","D">>, <<"C","L","A","S","S">> >>, << <<"T","H","I","R","D">>, <<"C","L","A","S","S">>, <<"H","O","N","O","U","R","S">> >> },
        lab  |-> <<"T","H","I","R","D"," ","C","L","A","S","S">>],
       [pats |-> { << <<"D","I","S","T","I","N","C","T","I","O","N">> >> }, lab |-> <<"D","I","S","T","I","N","C","T","I","O","N">>],
       [pats |-> { << <<"M","E","R","I","T">> >> },       lab |-> <<"M","E","R","I","T">>],
       [pats |-> { << <<"U","P","P","E","R">>, <<"C","R","E","D","I","T">> >> }, lab |-> <<"U","P","P","E","R"," ","C","R","E","D","I","T">>],
       [pats |-> { << <<"L","O","W","E","R">>, <<"C","R","E","D","I","T">> >> }, lab |-> <<"L","O","W","E","R"," ","C","R","E","D","I","T">>],
       [pats |-> { << <<"P","A","S","S">> >> },        lab |-> <<"P","A","S","S">>] >>

GradeMatches(u, i) == \E w \in GRADE_MAP[i].pats : FullMatchWords(u, w)

\* is_grade, were it to return the matched text and not the pattern's label
is_grade_text(line) ==
    LET u == Upper(line)
    IN IF \E i \in 1..Len(GRADE_MAP) : GradeMatches(u, i) THEN u ELSE <<>>

\* is_grade(line): the label of the first pattern that matches the whole
\* upper-cased line, <<>> for None
is_grade(line) ==
    LET u == Upper(line)
    IN IF \E i \in 1..Len(GRADE_MAP) : GradeMatches(u, i)
       THEN GRADE_MAP[CHOOSE i \in 1..Len(GRADE_MAP) :
                         GradeMatches(u, i) /\ \A j \in 1..(i - 1) : ~GradeMatches(u, j)].lab
       ELSE <<>>

NOISE_STOPWORDS ==
    { <<"A","N">>, <<"A">>, <<"O","N">>, <<"O","F">>, <<"I","N">>, <<"T","H","E">>, <<"A","N","D">>, <<"W","I","T","H">>, <<"F","O","R">>, <<"T","O">>,
      <<"U","N","I","V","E","R","S","I","T","Y">>, <<"U","Y","O">>, <<"U","N","I","V","E","R","S","I","T","Y"," ","O","F"," ","U","Y","O">>,
      <<"C","O","N","V","O","C","A","T","I","O","N">>, <<"C","E","R","E","M","O","N","Y">>, <<"P","R","O","G","R","A","M","M","E">>, <<"P","R","O","G","R","A","M">>, <<"V","O","L","U","M","E">>, <<"V","O","L">>, <<"N","O">>,
      <<"I","N","S","T","I","T","U","T","I","O","N">>, <<"M","I","S","S","I","O","N">>, <<"A","N"," ","I","N","S","T","I","T","U","T","I","O","N"," ","O","N"," ","A"," ","M","I","S","S","I","O","N">> }

\* the greedy run [A-Z\-']* from pos (no re.I)
RECURSIVE SkipSurname(_, _)
SkipSurname(s, pos) ==
    IF pos <= Len(s) /\ (IsUpper(s[pos]) \/ s[pos] \in {"-", "'"})
    THEN SkipSurname(s, pos + 1) ELSE pos

\* NAME_SPLIT_COMMA.match: ^\s*([A-Z\-']+),\s*(.+)$ gives [ok, g1, rest], rest
\* being the text after the comma (group 2 is rest without its leading
\* whitespace, or its last whitespace character when rest is all whitespace)
NAME_SPLIT_COMMA(s) ==
    LET a == SkipSpace(s, 1)
        b == SkipSurname(s, a)
    IN IF /\ b > a
          /\ b <= Len(s) /\ s[b] = ","
          /\ b < Len(s)
          /\ \A j \in (b + 1)..Len(s) : s[j] # "\n"
       THEN [ok |-> TRUE, g1 |-> SubSeq(s, a, b - 1), rest |-> From(s, b + 1)]
       ELSE [ok |-> FALSE, g1 |-> <<>>, rest |-> <<>>]

\* UPPER_TOKEN.match: ^[A-Z][A-Z\-']+$
UPPER_TOKEN(t) ==
    /\ Len(t) >= 2
    /\ IsUpper(t[1])
    /\ SkipSurname(t, 2) = Len(t) + 1

\* UpperRun, were the loop to stop after the first token
UpperRunOne(tokens, idx) ==
    IF idx < Len(tokens) /\ UPPER_TOKEN(tokens[idx + 1]) THEN idx + 1 ELSE idx

\* the number of leading tokens that match UPPER_TOKEN
RECURSIVE UpperRun(_, _)
UpperRun(tokens, idx) ==
    IF idx < Len(tokens) /\ UPPER_TOKEN(tokens[idx + 1])
    THEN UpperRun(tokens, idx + 1) ELSE idx

NoName == [ok |-> FALSE, surname |-> <<>>, first_name |-> <<>>, other |-> <<>>]
Name(s, f, o) == [ok |-> TRUE, surname |-> s, first_name |-> f, other |-> o]

\* the no-comma branch of parse_name, on the normalised line
ParseNameTokens(line) ==
    LET tokens == Split(line)
        hasComma == "," \in Range(line)
        sw_hits == Cardinality({i \in 1..Len(tokens) : Upper(tokens[i]) \in NOISE_STOPWORDS})
        idx == UpperRun(tokens, 0)
        rest == SubSeq(tokens, idx + 1, Len(tokens))
    IN IF tokens = <<>> THEN NoName
       \* sw_hits/len(toks_u) >= 0.6
       ELSE IF ~hasComma /\ 10 * sw_hits >= 6 * Len(tokens) THEN NoName
       ELSE IF idx = 0 THEN NoName
       ELSE IF idx = Len(tokens) /\ Len(tokens) >= 2
            THEN Name(Upper(tokens[1]), tokens[2], Join(SubSeq(tokens, 3, Len(tokens))))
       ELSE IF rest = <<>> THEN NoName
       ELSE IF ~hasComma /\ Len(rest[1]) <= 1 /\ Len(rest) = 1 THEN NoName
       ELSE Name(Upper(Join(SubSeq(tokens, 1, idx))), rest[1], Join(Tail(rest)))

Decorations == { <<"U","N","I","V","E","R","S","I","T","Y">>, <<"C","O","N","V","O","C","A","T","I","O","N">>, <<"C","E","R","E","M","O","N","Y">>, <<"I","N","S","T","I","T","U","T","I","O","N">>, <<"M","I","S","S","I","O","N">> }

\* parse_name(line): [ok, surname, first_name, other]
parse_name(raw) ==
    LET line == norm_space(raw)
        u == Upper(line)
        m == NAME_SPLIT_COMMA(line)
    IN IF FACULTY_PAT(line) \/ QUALI_PAT(line).ok \/ is_grade(line) # <<>> THEN NoName
       ELSE IF (\E d \in Decorations : Contains(u, d)) /\ ~("," \in Range(line)) THEN NoName
       ELSE IF m.ok
            THEN LET rest == Split(m.rest)
                 IN IF rest = <<>> THEN NoName
                    ELSE Name(m.g1, rest[1], Join(Tail(rest)))
       ELSE ParseNameTokens(line)

\* the digits run \d* from pos
RECURSIVE SkipDigits(_, _)
SkipDigits(s, pos) ==
    IF pos <= Len(s) /\ IsDigit(s[pos]) THEN SkipDigits(s, pos + 1) ELSE pos

\* Vol\.?\s*\d+ over the whole line (re.I)
IsVolumeMarker(s) ==
    /\ LitAtI(s, 1, <<"V","o","l">>)
    /\ LET p1 == IF Len(s) >= 4 /\ s[4] = "." THEN 5 ELSE 4
           p2 == SkipSpace(s, p1)
       IN p2 <= Len(s) /\ SkipDigits(s, p2) = Len(s) + 1

\* IsDecorative, were the page-number alternative \d+ missing
IsDecorativeNoPageNumber(line) ==
    \/ IsVolumeMarker(line)
    \/ Upper(line) \in { <<"C","O","N","V","O","C","A","T","I","O","N">>, <<"C","E","R","E","M","O","N","Y">>, <<"U","N","I","V","E","R","S","I","T","Y"," ","O","F"," ","U","Y","O">> }
    \/ FullMatchWords(Upper(line), << <<"A">>, <<"I","N","S","T","I","T","U","T","I","O","N">>, <<"O","N">>, <<"A">>, <<"M","I","S","S","I","O","N">> >>)
    \/ FullMatchWords(Upper(line), << <<"A","N">>, <<"I","N","S","T","I","T","U","T","I","O","N">>, <<"O","N">>, <<"A">>, <<"M","I","S","S","I","O","N">> >>)

\* the decorative lines parse_document drops without audit: re.fullmatch of
\* \d+|Vol\.?\s*\d+|Convocation|Ceremony|UNIVERSITY OF UYO|
\* An?\s+Institution\s+on\s+a\s+Mission (re.I)
IsDecorative(line) ==
    \/ (line # <<>> /\ SkipDigits(line, 1) = Len(line) + 1)
    \/ IsVolumeMarker(line)
    \/ Upper(line) \in { <<"C","O","N","V","O","C","A","T","I","O","N">>, <<"C","E","R","E","M","O","N","Y">>, <<"U","N","I","V","E","R","S","I","T","Y"," ","O","F"," ","U","Y","O">> }
    \/ FullMatchWords(Upper(line), << <<"A">>, <<"I","N","S","T","I","T","U","T","I","O","N">>, <<"O","N">>, <<"A">>, <<"M","I","S","S","I","O","N">> >>)
    \/ FullMatchWords(Upper(line), << <<"A","N">>, <<"I","N","S","T","I","T","U","T","I","O","N">>, <<"O","N">>, <<"A">>, <<"M","I","S","S","I","O","N">> >>)

\* ------------------------------------------------------- parse_document

\* bounds of the explored documents
MaxPages == 2
MaxLines == 3

\* The lines a page can hold.  They are what group_lines returns: whitespace
\* normalised and not blank.
LnFaculty    == <<"F","A","C","U","L","T","Y"," ","O","F"," ","A","R","T","S">>
LnQualSpaced == <<"B","."," ","A","g","r","i","c","."," ","(","A","g","r","i","c","u","l","t","u","r","a","l"," ","E","c","o","n","o","m","i","c","s"," ","a","n","d"," ","E","x","t","e","n","s","i","o","n",")">>
LnQualTight  == <<"H","N","D","(","A","c","c","o","u","n","t","i","n","g",")">>
LnSession    == <<"2","0","2","0","/","2","0","2","1"," ","A","C","A","D","E","M","I","C"," ","S","E","S","S","I","O","N">>
LnFirstClass == <<"F","I","R","S","T"," ","C","L","A","S","S"," ","H","O","N","O","U","R","S">>
LnPass       == <<"P","A","S","S">>
LnNameComma  == <<"A","K","W","A","O","W","O",","," ","S","i","f","o","n","g","o","b","o","n","g"," ","U","d","o","u","d","o">>
LnNameB      == <<"B","A","S","S","E","Y",","," ","J","o","h","n"," ","U","d","o">>
LnNameMulti  == <<"V","A","N"," ","D","E","R",","," ","J","o","h","n">>
LnNameCaps   == <<"O","K","O","N"," ","J","o","h","n"," ","P","e","t","e","r">>
LnInteger    == <<"1","2">>
LnVolume     == <<"V","o","l","."," ","3">>
LnNoise      == <<"O","r","d","e","r"," ","o","f"," ","P","r","o","c","e","e","d","i","n","g","s">>

DocLines ==
    { LnFaculty, LnQualSpaced, LnQualTight, LnSession, LnFirstClass, LnPass,
      LnNameComma, LnNameB, LnNameMulti, LnNameCaps, LnInteger, LnVolume, LnNoise }

\* A page of the extraction runs below is laid out in one column with one
\* fragment per line, so that its lines are the texts of its fragments, top to
\* bottom; the fragments are drawn from these one-token lines.
LnNameTight == <<"A","K","P","A","N",",","J","o","h","n">>
FragmentCycle == << LnNoise, LnNameTight, LnQualTight >>
FragmentLines == Range(FragmentCycle)

\* the values of SESSION the run may be started with
DefaultSessions == { <<>>, <<"2","0","1","9","/","2","0","2","0">> }

VARIABLES
    current,        \* parse_document: the section context
    rows,           \* parse_document: the records emitted so far
    audit,          \* parse_document: audit['unparsed']
    page,           \* parse_document: pi + 1 of the page being scanned, 0 before the first
    seen_heading,   \* parse_document: a heading was seen on this page
    nlines,         \* lines consumed so far
    lastLine,       \* history: the line consumed by the last step
    outcome,        \* history: what the last step did with it
    pageStart,      \* history: the context when the page being scanned began
    rowsAtPageStart,\* history: len(rows) when the page being scanned began
    gradeLine,      \* history: the last grade line consumed on this page
    hpc,            \* main / hybrid_extract_words: the next step of the run
    pages_env,      \* parse_page_env: PAGES, split at its commas
    sel_pages,      \* main: the selected pages, <<>> for None
    native,         \* the document: what native extraction finds on a page
    optical,        \* the document: what optical recognition finds on a page
    text_pages,     \* hybrid_extract_words: the result of the native pass
    to_ocr,         \* hybrid_extract_words: the pages sent to OCR
    ocr_pages,      \* hybrid_extract_words: the result of the OCR pass
    results,        \* hybrid_extract_words: the pages to return
    lpc,            \* layout: the next step
    words_in,       \* detect_columns / group_lines: the fragments passed in
    expected_cols,  \* detect_columns: expected_cols, 0 for None
    cols,           \* detect_columns: the bands returned
    lines_out,      \* group_lines: the lines returned
    rpc,            \* records: the next step
    page_records,   \* extract_from_pdf: the records extract_from_page returned
    page_context,   \* extract_from_pdf: the context kept from the pages before
    self_session,   \* ConvocationPDFExtractor: self.session
    all_records,    \* extract_from_pdf: the records after the back-fill
    processed_records, \* extract_from_pdf: what post_process_records returned
    frames,         \* aggregate_results.main: the chunk tables read
    df_all,         \* aggregate_results.main: the aggregated table
    last_context,   \* ConvocationPDFExtractor: self.last_context
    calls,          \* the calls of extract_from_pdf made on the extractor
    npc,   \* parse_name: the position of the call
    name_line,   \* parse_name: the line passed in
    name_out,  \* parse_name: what it returned
    prog,   \* which program runs: extract.py, run_agent.py or aggregate_results.py
    mpc,   \* main: the position reached
    run_env,   \* main: which environment variables and inputs are there
    doc_pages,   \* extract.py main: total_pages
    run_rows,   \* main: the records the processing produced
    disk,   \* the result files under outputs/
    attempts,   \* the file writes and deliveries made, in order
    run_summary,   \* main: summary
    exit_status,   \* the status the process ends with
    said_reason,   \* a reason was printed
    escaped   \* an exception left main

parserVars == << current, rows, audit, page, seen_heading, nlines,
                 lastLine, outcome, pageStart, rowsAtPageStart, gradeLine >>
hybridVars == << hpc, pages_env, sel_pages, native, optical,
                 text_pages, to_ocr, ocr_pages, results >>
layoutVars == << lpc, words_in, expected_cols, cols, lines_out >>
recordVars == << rpc, page_records, page_context, self_session, all_records,
                 processed_records, frames, df_all, last_context, calls >>
nameVars == << npc, name_line, name_out >>
runVars == << prog, mpc, run_env, doc_pages, run_rows, disk, attempts, run_summary, exit_status, said_reason, escaped >>
vars == << parserVars, hybridVars, layoutVars, recordVars, nameVars, runVars >>
\* what the steps of one part of the program leave alone
besidesParser == << hybridVars, layoutVars, recordVars, nameVars, runVars >>
besidesHybrid == << parserVars, layoutVars, recordVars, nameVars, runVars >>
besidesLayout == << parserVars, hybridVars, recordVars, nameVars, runVars >>
besidesRecords == << parserVars, hybridVars, layoutVars, nameVars, runVars >>
besidesName == << parserVars, hybridVars, layoutVars, recordVars, runVars >>
besidesRun == << parserVars, hybridVars, layoutVars, recordVars, nameVars >>

\* current, as parse_document creates it
InitialContext(default_session) ==
    [ faculty |-> <<>>, qualification |-> <<>>, course |-> <<>>, grade |-> <<>>,
      session |-> default_session ]

\* OnHeading, were a new heading to start a section with no grade
OnHeadingResetsGrade(st, h) ==
    [ st EXCEPT
        !.seen_heading = TRUE,
        !.current = [ faculty       |-> IF "faculty" \in h.has THEN h.faculty ELSE @.faculty,
                      qualification |-> IF "qualification" \in h.has THEN h.qualification
                                        ELSE @.qualification,
                      course        |-> IF "course" \in h.has THEN h.course ELSE @.course,
                      grade         |-> <<>>,
                      session       |-> IF "session" \in h.has THEN h.session ELSE @.session ],
        !.kind = "heading" ]

\* the heading branch: every key parse_headings returned replaces the field
OnHeading(st, h) ==
    [ st EXCEPT
        !.seen_heading = TRUE,
        !.current = [ faculty       |-> IF "faculty" \in h.has THEN h.faculty ELSE @.faculty,
                      qualification |-> IF "qualification" \in h.has THEN h.qualification
                                        ELSE @.qualification,
                      course        |-> IF "course" \in h.has THEN h.course ELSE @.course,
                      grade         |-> @.grade,
                      session       |-> IF "session" \in h.has THEN h.session ELSE @.session ],
        !.kind = "heading" ]

\* OnGrade, were the rows to hold the context dict itself and not its values
OnGradeAliased(st, g) ==
    [ st EXCEPT !.current.grade = g,
                !.rows = [i \in 1..Len(@) |-> [@[i] EXCEPT !.grade = g]],
                !.kind = "grade" ]

\* the grade branch
OnGrade(st, g) ==
    [ st EXCEPT !.current.grade = g, !.kind = "grade" ]

\* Row(...) of the name branch
Row(nm, cur) ==
    [ surname                |-> nm.surname,
      first_name             |-> titlecase_name(nm.first_name),
      other_name             |-> titlecase_name(nm.other),
      course_studied         |-> cur.course,
      faculty                |-> cur.faculty,
      grade                  |-> cur.grade,
      qualification_obtained |-> cur.qualification,
      session                |-> cur.session ]

\* the name branch
OnName(st, nm) ==
    [ st EXCEPT !.rows = Append(@, Row(nm, st.current)), !.kind = "name" ]

\* OnNoise, were every unclassified line dropped
OnNoiseSilent(st, pi, ln) ==
    [ st EXCEPT !.kind = IF IsDecorative(ln) THEN "decor" ELSE "audit" ]

\* the last branch: decorative lines are dropped, the others audited
OnNoise(st, pi, ln) ==
    IF IsDecorative(ln)
    THEN [ st EXCEPT !.kind = "decor" ]
    ELSE [ st EXCEPT !.audit = Append(@, [page |-> pi + 1, line |-> ln]), !.kind = "audit" ]

\* what the three classifiers of the loop body return for a line
Classify(ln) ==
    [ h |-> parse_headings(ln), g |-> is_grade(ln), nm |-> parse_name(ln) ]

\* the function [ln \in S |-> Classify(ln)], built entry by entry
RECURSIVE ClassifyAll(_)
ClassifyAll(S) ==
    IF S = {} THEN <<>>
    ELSE LET ln == CHOOSE x \in S : TRUE
         IN (ln :> Classify(ln)) @@ ClassifyAll(S \ {ln})

\* Classify, tabulated once over the lines of the model
Classified == ClassifyAll(DocLines \cup FragmentLines)

\* one iteration of the loop over a page's lines
\* ScanLine, were the heading and grade branches to lack their continue
ScanLineFallThrough(st, pi, ln) ==
    LET c == Classified[ln]
        a == IF c.h.has # {} THEN OnHeading(st, c.h) ELSE st
        b == IF c.g # <<>> THEN OnGrade(a, c.g) ELSE a
    IN IF c.nm.ok THEN OnName(b, c.nm) ELSE OnNoise(b, pi, ln)

\* the body of the loop over the lines: the first branch that matches ends it
ScanLine(st, pi, ln) ==
    LET c == Classified[ln]
    IN IF c.h.has # {} THEN OnHeading(st, c.h)
       ELSE IF c.g # <<>> THEN OnGrade(st, c.g)
       ELSE IF c.nm.ok THEN OnName(st, c.nm)
       ELSE OnNoise(st, pi, ln)

\* parse_document has not begun
ParserAtStart(default_session) ==
    /\ current = InitialContext(default_session)
    /\ rows = <<>>
    /\ audit = <<>>
    /\ page = 0
    /\ seen_heading = FALSE
    /\ nlines = 0
    /\ lastLine = <<>>
    /\ outcome = "none"
    /\ pageStart = current
    /\ rowsAtPageStart = 0
    /\ gradeLine = <<>>

\* no extraction run is under way
HybridIdle ==
    /\ hpc = "idle"
    /\ pages_env = <<>>
    /\ sel_pages = <<>>
    /\ native = <<>>
    /\ optical = <<>>
    /\ text_pages = <<>>
    /\ to_ocr = <<>>
    /\ ocr_pages = <<>>
    /\ results = <<>>

\* no layout call is under way
LayoutIdle ==
    /\ lpc = "idle"
    /\ words_in = <<>>
    /\ expected_cols = 0
    /\ cols = <<>>
    /\ lines_out = <<>>

\* no record is being post-processed or aggregated
RecordsIdle ==
    /\ rpc = "idle"
    /\ page_records = <<>>
    /\ page_context = <<>>
    /\ self_session = <<>>
    /\ all_records = <<>>
    /\ processed_records = <<>>
    /\ frames = <<>>
    /\ df_all = <<>>
    /\ last_context = <<>>
    /\ calls = 0

NameIdle ==
    /\ npc = "idle"
    /\ name_line = <<>>
    /\ name_out = <<>>

RunIdle ==
    /\ prog = "none"
    /\ mpc = "idle"
    /\ run_env = <<>>
    /\ doc_pages = -1
    /\ run_rows = -1
    /\ disk = <<>>
    /\ attempts = <<>>
    /\ run_summary = <<>>
    /\ exit_status = -1
    /\ said_reason = FALSE
    /\ escaped = FALSE

Init ==
    /\ RunIdle
    /\ NameIdle
    /\ HybridIdle
    /\ LayoutIdle
    /\ RecordsIdle
    /\ \E s \in DefaultSessions : ParserAtStart(s)

\* the loop over pages_words moves to the next page
NextPage ==
    /\ page < MaxPages
    /\ page' = page + 1
    /\ seen_heading' = FALSE
    /\ lastLine' = <<>>
    /\ outcome' = "page"
    /\ pageStart' = current
    /\ rowsAtPageStart' = Len(rows)
    /\ gradeLine' = <<>>
    /\ UNCHANGED << current, rows, audit, nlines >>
    /\ UNCHANGED besidesParser

\* the loop over the page's lines consumes the line ln
Scan(ln) ==
    /\ page >= 1
    /\ nlines < MaxLines
    /\ LET st == ScanLine([ current |-> current, rows |-> rows, audit |-> audit,
                            seen_heading |-> seen_heading, kind |-> "none" ],
                          page - 1, ln)
       IN /\ current' = st.current
          /\ rows' = st.rows
          /\ audit' = st.audit
          /\ seen_heading' = st.seen_heading
          /\ outcome' = st.kind
          /\ gradeLine' = IF st.kind = "grade" THEN ln ELSE gradeLine
    /\ lastLine' = ln
    /\ nlines' = nlines + 1
    /\ UNCHANGED << page, pageStart, rowsAtPageStart >>
    /\ UNCHANGED besidesParser

Next ==
    \/ NextPage
    \/ \E ln \in DocLines : Scan(ln)

Spec == Init /\ [][Next]_vars

\* ---------------------------------------------- claims on parse_document

\* the last step consumed a line (lastLine)
Scanned == outcome \in {"heading", "grade", "name", "decor", "audit"}

\* the context fields a record carries
RowContext(r) ==
    [ faculty |-> r.faculty, qualification |-> r.qualification_obtained,
      course |-> r.course_studied, grade |-> r.grade, session |-> r.session ]

HeadingFields == {"faculty", "qualification", "course", "session"}

\* the step appends exactly one record and leaves the earlier ones alone
EmitsOne == Len(rows') = Len(rows) + 1 /\ SubSeq(rows', 1, Len(rows)) = rows
NewRow == rows'[Len(rows')]

\* Each context field changes only on a line of its own pattern: the heading
\* fields through the keys parse_headings returns, grade through is_grade;
\* name lines, noise lines and page boundaries change nothing, grade lines
\* change grade only, heading lines do not change grade.
FieldsFollowOwnPattern ==
    /\ \A f \in HeadingFields :
          current'[f] # current[f] =>
              /\ outcome' = "heading"
              /\ f \in Classified[lastLine'].h.has
              /\ current'[f] = Classified[lastLine'].h[f]
    /\ current'.grade # current.grade =>
          /\ outcome' = "grade"
          /\ current'.grade = Classified[lastLine'].g
    /\ outcome' \in {"name", "decor", "audit", "page"} => current' = current

\* C1 as stated: each context field changes only on a line of its own pattern,
\* and every record emitted from a page (after the first) that holds no heading
\* carries all five context values held at the end of the previous page.
C1_ContextOfHeadinglessPage ==
    [][ /\ FieldsFollowOwnPattern
        /\ (outcome' = "name" /\ page' >= 2 /\ ~seen_heading')
              => (EmitsOne /\ RowContext(NewRow) = pageStart') ]_vars

\* C1 amended: each context field changes only on a line of its own pattern,
\* and every record emitted from a page that holds no heading (so far) carries
\* the faculty, qualification, course and session held when the page began,
\* and the grade held then unless a grade line came before it on the page.
C1_HeadingContextOfHeadinglessPage ==
    [][ /\ FieldsFollowOwnPattern
        /\ (outcome' = "name" /\ ~seen_heading')
              => /\ EmitsOne
                 /\ \A f \in HeadingFields : RowContext(NewRow)[f] = pageStart'[f]
                 /\ gradeLine' = <<>> => NewRow.grade = pageStart'.grade ]_vars

\* C1's case: on the second page, which has no heading, a record follows a
\* grade line and carries the faculty set on the first page
C1_Witness ==
    /\ page = 2 /\ ~seen_heading /\ outcome = "name"
    /\ gradeLine # <<>>
    /\ Len(rows) > rowsAtPageStart
    /\ pageStart.faculty # <<>>
    /\ rows[Len(rows)].faculty = pageStart.faculty
    /\ rows[Len(rows)].grade # pageStart.grade

\* C2: a record carries the context values of the moment its name line is
\* consumed, and no later step changes a record already emitted.
C2_RecordIsSnapshot ==
    [][ /\ Len(rows') >= Len(rows)
        /\ SubSeq(rows', 1, Len(rows)) = rows
        /\ outcome' = "name" => (EmitsOne /\ RowContext(NewRow) = current)
        /\ outcome' # "name" => rows' = rows ]_vars

\* C2's case: a grade line and a heading line came after the first record,
\* which still carries the context of its own moment
C2_Witness ==
    /\ Len(rows) >= 1
    /\ outcome \in {"heading", "grade"}
    /\ rows[1].grade # current.grade
    /\ rows[1].qualification_obtained # current.qualification

\* a line of the form SURNAME, First Middle: upper-case words (letters, hyphens,
\* apostrophes) before the one comma, at least one token after it
CommaNameForm(ln) ==
    \E c \in 2..(Len(ln) - 1) :
        /\ ln[c] = ","
        /\ \A i \in 1..(c - 1) : IsUpper(ln[i]) \/ ln[i] \in {"-", "'", " "}
        /\ IsUpper(ln[1]) /\ ln[c - 1] # " "
        /\ \A i \in (c + 1)..Len(ln) : ln[i] # ","
        /\ Split(From(ln, c + 1)) # <<>>

CommaPosition(ln) == CHOOSE c \in 1..Len(ln) : ln[c] = ","

\* the name such a line states
CommaNameOf(ln) ==
    LET c == CommaPosition(ln)
        rest == Split(From(ln, c + 1))
    IN [ surname |-> Upper(SubSeq(ln, 1, c - 1)),
         first_name |-> titlecase_name(rest[1]),
         rest |-> Tail(rest) ]

CommaNameLines == { ln \in DocLines : CommaNameForm(ln) }

\* C3: every line SURNAME, First Middle that reaches the classifier emits
\* exactly one record, with the comma prefix as surname, the first token after
\* the comma title-cased as first name and the remaining tokens as other name.
C3_CommaNameEmitsRecord ==
    [][ (Scanned' /\ lastLine' \in CommaNameLines) =>
            /\ outcome' = "name"
            /\ EmitsOne
            /\ NewRow.surname = CommaNameOf(lastLine').surname
            /\ NewRow.first_name = CommaNameOf(lastLine').first_name
            /\ NewRow.other_name = Join(CommaNameOf(lastLine').rest)
      ]_vars
\* C4: the line FIRST CLASS HONOURS sets the grade to FIRST CLASS and emits no
\* record, and every name line after it on the page, up to the next grade
\* line, yields a record of grade FIRST CLASS.
C4_FirstClassHonours ==
    [][ /\ (Scanned' /\ lastLine' = LnFirstClass) =>
              /\ outcome' = "grade"
              /\ current'.grade = <<"F","I","R","S","T"," ","C","L","A","S","S">>
              /\ rows' = rows /\ audit' = audit
        /\ (outcome' = "name" /\ gradeLine' = LnFirstClass) =>
              (EmitsOne /\ NewRow.grade = <<"F","I","R","S","T"," ","C","L","A","S","S">>) ]_vars

\* C4's case: a name line right after FIRST CLASS HONOURS, on a page with no
\* heading
C4_Witness ==
    /\ gradeLine = LnFirstClass /\ ~seen_heading
    /\ outcome = "name" /\ lastLine = LnNameComma
    /\ Len(rows) = rowsAtPageStart + 1
    /\ rows[Len(rows)].grade = <<"F","I","R","S","T"," ","C","L","A","S","S">>

\* a heading made of a degree abbreviation and a parenthesised course name
ParenCourseForm(ln) ==
    /\ QUALI_PAT(ln).ok
    /\ ln[Len(ln)] = ")"
    /\ Cardinality({i \in 1..Len(ln) : ln[i] = "("}) = 1
    /\ Cardinality({i \in 1..Len(ln) : ln[i] = ")"}) = 1

ParenPosition(ln) == CHOOSE i \in 1..Len(ln) : ln[i] = "("

\* the abbreviation and the course such a heading states
ParenCourseOf(ln) ==
    [ qualification |-> norm_space(SubSeq(ln, 1, ParenPosition(ln) - 1)),
      course |-> norm_space(Upper(SubSeq(ln, ParenPosition(ln) + 1, Len(ln) - 1))) ]

ParenCourseLines == { ln \in DocLines : ParenCourseForm(ln) }

\* C5: a degree abbreviation followed by a parenthesised course name, with or
\* without a space before the parenthesis, sets qualification to the
\* abbreviation and course to the upper-cased text in the parentheses, and
\* emits no record.
C5_ParenthesisedCourse ==
    [][ (Scanned' /\ lastLine' \in ParenCourseLines) =>
            /\ current'.qualification = ParenCourseOf(lastLine').qualification
            /\ current'.course = ParenCourseOf(lastLine').course
            /\ rows' = rows ]_vars

\* a bare integer: digits and nothing else
IsBareInteger(ln) == ln # <<>> /\ \A i \in 1..Len(ln) : IsDigit(ln[i])

\* C6: a line that is a bare integer yields no record, no audit entry and no
\* change of the context, whatever came before it.
C6_BareIntegerIgnored ==
    [][ /\ (Scanned' /\ IsBareInteger(lastLine')) =>
              (rows' = rows /\ audit' = audit /\ current' = current)
        /\ \A i \in 1..Len(audit') : ~IsBareInteger(audit'[i].line) ]_vars

\* C6's case: the integer line comes after a heading and a record
C6_Witness ==
    /\ lastLine = LnInteger /\ outcome = "decor"
    /\ Len(rows) = 1 /\ current.faculty # <<>> /\ audit = <<>>

\* neither heading, grade nor name
Unclassified(ln) ==
    /\ Classified[ln].h.has = {}
    /\ Classified[ln].g = <<>>
    /\ ~Classified[ln].nm.ok

\* C7: a line that is neither heading, grade nor name is appended to the audit
\* list exactly once unless the whole line is decorative, and is then dropped;
\* a line that is heading, grade or name is not audited.
C7_UnclassifiedIsAudited ==
    [][ Scanned' =>
          IF Unclassified(lastLine') /\ ~IsDecorative(lastLine')
          THEN /\ Len(audit') = Len(audit) + 1
               /\ SubSeq(audit', 1, Len(audit)) = audit
               /\ audit'[Len(audit')].line = lastLine'
          ELSE audit' = audit ]_vars

\* C7's case: one line was audited and a decorative one was dropped after it
C7_Witness ==
    /\ lastLine = LnVolume /\ outcome = "decor"
    /\ Len(audit) = 1 /\ audit[1].line = LnNoise
    /\ nlines = 2

\* C25: every consumed line has exactly one outcome, decided in the order
\* heading, grade, name, noise: a heading or grade line emits no record and
\* no audit entry, a name line emits one record and leaves the context and
\* the audit alone, a noise line is either dropped or audited once and
\* changes nothing else; so the lines consumed are the heading updates, the
\* grade updates, the records, the discards and the audit entries together.
C25_OneOutcomePerLine ==
    [][ nlines' = nlines + 1 =>
          LET c       == Classified[lastLine']
              heading == c.h.has # {}
              grade   == ~heading /\ c.g # <<>>
              name    == ~heading /\ ~grade /\ c.nm.ok
              noise   == ~heading /\ ~grade /\ ~name
              dropped == noise /\ IsDecorative(lastLine')
              audited == noise /\ ~IsDecorative(lastLine')
          IN /\ outcome' = (IF heading THEN "heading" ELSE IF grade THEN "grade"
                            ELSE IF name THEN "name"
                            ELSE IF dropped THEN "decor" ELSE "audit")
             /\ Len(rows') = Len(rows) + (IF name THEN 1 ELSE 0)
             /\ Len(audit') = Len(audit) + (IF audited THEN 1 ELSE 0)
             /\ SubSeq(rows', 1, Len(rows)) = rows
             /\ SubSeq(audit', 1, Len(audit)) = audit
             /\ current' # current => (heading \/ grade)
             /\ ~grade => current'.grade = current.grade
             /\ grade => [current' EXCEPT !.grade = current.grade] = current ]_vars

\* C25's case: three lines had three different outcomes, a grade update, a
\* record and an audit entry
C25_Witness ==
    /\ nlines = 3 /\ outcome = "audit"
    /\ Len(rows) = 1 /\ Len(audit) = 1
    /\ gradeLine # <<>> /\ rows[1].grade = current.grade /\ current.grade # <<>>

\* ------------------------------------------------------- page selection

SetMin(S) == CHOOSE x \in S : \A y \in S : x <= y
SetMax(S) == CHOOSE x \in S : \A y \in S : y <= x
\* the builtins max and min on two integers
max(a, b) == IF a >= b THEN a ELSE b
min(a, b) == IF a <= b THEN a ELSE b
\* range(a, b + 1) as a list
RangeList(a, b) == [k \in 1..(b - a + 1) |-> a + k - 1]

\* str.strip
strip(s) ==
    LET solid == {i \in 1..Len(s) : ~IsSpace(s[i])}
    IN IF solid = {} THEN <<>> ELSE SubSeq(s, SetMin(solid), SetMax(solid))

\* str.split(',') : the parts between the commas, the empty ones included
RECURSIVE SplitComma(_)
SplitComma(s) ==
    LET commas == {i \in 1..Len(s) : s[i] = ","}
    IN IF commas = {} THEN << s >>
       ELSE << SubSeq(s, 1, SetMin(commas) - 1) >>
            \o SplitComma(SubSeq(s, SetMin(commas) + 1, Len(s)))

\* ','.join(parts)
RECURSIVE JoinComma(_)
JoinComma(parts) ==
    IF parts = <<>> THEN <<>>
    ELSE IF Len(parts) = 1 THEN parts[1]
    ELSE parts[1] \o <<",">> \o JoinComma(Tail(parts))

DigitChars == <<"0","1","2","3","4","5","6","7","8","9">>
DigitValue(c) == (CHOOSE i \in 1..Len(DigitChars) : DigitChars[i] = c) - 1
RECURSIVE DigitsValue(_)
DigitsValue(s) ==
    IF s = <<>> THEN 0
    ELSE 10 * DigitsValue(SubSeq(s, 1, Len(s) - 1)) + DigitValue(s[Len(s)])

\* int(s): surrounding whitespace and one sign are accepted, anything else
\* but decimal digits raises ValueError (ok = FALSE)
int(s) ==
    LET t == strip(s)
        signed == t # <<>> /\ t[1] \in {"+", "-"}
        d == IF signed THEN Tail(t) ELSE t
    IN IF d = <<>> \/ \E i \in 1..Len(d) : ~IsDigit(d[i])
       THEN [ok |-> FALSE, v |-> 0]
       ELSE [ok |-> TRUE,
             v |-> IF signed /\ t[1] = "-" THEN 0 - DigitsValue(d)
                   ELSE DigitsValue(d)]

\* the pages one part of PAGES adds
PartPages(rawpart, total_pages) ==
    LET part == strip(rawpart)
        dashes == {i \in 1..Len(part) : part[i] = "-"}
    IN IF part = <<>> THEN <<>>
       ELSE IF dashes # {}
       THEN LET a == int(SubSeq(part, 1, SetMin(dashes) - 1))
                b == int(SubSeq(part, SetMin(dashes) + 1, Len(part)))
                a_i == max(1, a.v)
                b_i == min(total_pages, b.v)
            IN IF a.ok /\ b.ok /\ a_i <= b_i THEN RangeList(a_i, b_i) ELSE <<>>
       ELSE LET pg == int(part)
            IN IF pg.ok /\ 1 <= pg.v /\ pg.v <= total_pages
               THEN << pg.v >> ELSE <<>>

RECURSIVE PartsPages(_, _)
PartsPages(parts, total_pages) ==
    IF parts = <<>> THEN <<>>
    ELSE PartPages(parts[1], total_pages) \o PartsPages(Tail(parts), total_pages)

\* parse_page_env: the selected pages, <<>> standing for None (all pages)
parse_page_env(PAGES, PAGE_START, PAGE_END, total_pages) ==
    LET penv == strip(PAGES)
        start_env == strip(PAGE_START)
        end_env == strip(PAGE_END)
    IN IF penv # <<>> THEN PartsPages(SplitComma(penv), total_pages)
       ELSE IF start_env # <<>> \/ end_env # <<>>
       THEN LET a == IF start_env # <<>> THEN int(start_env)
                     ELSE [ok |-> TRUE, v |-> 1]
                b == IF end_env # <<>> THEN int(end_env)
                     ELSE [ok |-> TRUE, v |-> total_pages]
                a_i == max(1, a.v)
                b_i == min(total_pages, b.v)
            IN IF a.ok /\ b.ok /\ a_i <= b_i THEN RangeList(a_i, b_i) ELSE <<>>
       ELSE <<>>

\* --------------------------------------------------- hybrid extraction

\* the number of pages of the document
TotalPages == 2
\* min_text_words, the density threshold of the run
MinTextWords == 2
\* the number of comma-separated parts of PAGES
MaxParts == 2

DocPages == 1..TotalPages

\* The fragments of a page, as the text layer or the recogniser reads them:
\* the first n fragments of the page's text.
PageWords(p, n) ==
    [k \in 1..n |-> FragmentCycle[((p + k) % Len(FragmentCycle)) + 1]]

\* a page dictionary; src records which path produced it
PageDict(p, n, src) == [page_num |-> p, words |-> PageWords(p, n), src |-> src]

\* the fragment counts a reading may have: none, one below the threshold,
\* the threshold
WordCounts == {0, MinTextWords - 1, MinTextWords}

\* What one extraction path finds on a page.  The native path fails to open
\* the page or reads n fragments; the OCR path raises on the page, gets no
\* image for it, or reads n fragments.
Unread == [st |-> "unread", n |-> 0]
NativeOutcomes ==
    {[st |-> "fail", n |-> 0]} \cup {[st |-> "ok", n |-> k] : k \in WordCounts}
OcrOutcomes ==
    {[st |-> "raise", n |-> 0], [st |-> "none", n |-> 0]}
      \cup {[st |-> "ok", n |-> k] : k \in WordCounts}

\* the pages a call with the argument req works through
Indices(req) == IF req = <<>> THEN RangeList(1, TotalPages) ELSE req

\* extract_words_from_pdf: a page that does not open is skipped
extract_words_from_pdf(req, nat) ==
    LET opened == SelectSeq(Indices(req), LAMBDA idx : nat[idx].st = "ok")
    IN [i \in 1..Len(opened) |-> PageDict(opened[i], nat[opened[i]].n, "text")]

\* sorted(set(pages))
SortedSet(S) ==
    [k \in 1..Cardinality(S) |->
        CHOOSE x \in S : Cardinality({y \in S : y < x}) = k - 1]

\* _group_ranges: the maximal runs of consecutive page numbers, ascending
_group_ranges(pgs) ==
    LET S == Range(pgs)
        starts == SortedSet({x \in S : (x - 1) \notin S})
    IN [k \in 1..Len(starts) |->
          << starts[k],
             SetMax({y \in S : \A z \in starts[k]..y : z \in S}) >>]

\* the page numbers extract_words_via_ocr goes through, in its order
RECURSIVE OcrOrderOf(_)
OcrOrderOf(ranges) ==
    IF ranges = <<>> THEN <<>>
    ELSE RangeList(ranges[1][1], ranges[1][2]) \o OcrOrderOf(Tail(ranges))
OcrOrder(pgs) == OcrOrderOf(_group_ranges(pgs))

\* convert_from_path or image_to_data raises on some page of the call
OcrRaises(pgs, opt) == \E q \in Range(pgs) : opt[q].st = "raise"

\* extract_words_via_ocr when nothing raises: a page dictionary for every
\* image that convert_from_path returned
extract_words_via_ocr(pgs, opt) ==
    LET imaged == SelectSeq(OcrOrder(pgs), LAMBDA q : opt[q].st = "ok")
    IN [i \in 1..Len(imaged) |-> PageDict(imaged[i], opt[imaged[i]].n, "ocr")]

\* {p['page_num']: p for p in pgs}[pnum] : the last entry wins
ByNum(pgs, pnum) ==
    pgs[SetMax({i \in 1..Len(pgs) : pgs[i].page_num = pnum})]
HasNum(pgs, pnum) == \E i \in 1..Len(pgs) : pgs[i].page_num = pnum

\* hybrid_extract_words, the first loop: the sparse pages go to OCR, the
\* dense ones to the results
PageNums(pgs) == [i \in 1..Len(pgs) |-> pgs[i].page_num]
ToOcr(tps, min_text_words) ==
    SelectSeq(PageNums(tps),
              LAMBDA pnum : Len(ByNum(tps, pnum).words) < min_text_words)
DenseResults(tps, min_text_words) ==
    LET dense == SelectSeq(PageNums(tps),
                   LAMBDA pnum : ~(Len(ByNum(tps, pnum).words) < min_text_words))
    IN [i \in 1..Len(dense) |-> ByNum(tps, dense[i])]

\* a comparison of the second loop that lets the text layer win a tie
ChosenStrict(tps, ops, pnum) ==
    IF HasNum(ops, pnum)
       /\ Len(ByNum(ops, pnum).words) > Len(ByNum(tps, pnum).words)
    THEN ByNum(ops, pnum) ELSE ByNum(tps, pnum)

\* hybrid_extract_words, the second loop: the page chosen for pnum (txt is
\* never missing, to_ocr being drawn from text_pages)
Chosen(tps, ops, pnum) ==
    IF HasNum(ops, pnum)
       /\ Len(ByNum(ops, pnum).words) >= Len(ByNum(tps, pnum).words)
    THEN ByNum(ops, pnum) ELSE ByNum(tps, pnum)

HybridChoose(res, tps, ops, sparse) ==
    res \o [i \in 1..Len(sparse) |-> Chosen(tps, ops, sparse[i])]

\* a return that leaves the results in the order they were appended
KeepOrder(res) == res

\* results.sort(key=page_num): a stable sort
SortByPageNum(res) ==
    LET rank(i) ==
            Cardinality({j \in 1..Len(res) : res[j].page_num < res[i].page_num})
            + Cardinality({j \in 1..i : res[j].page_num = res[i].page_num})
    IN [k \in 1..Len(res) |-> res[CHOOSE i \in 1..Len(res) : rank(i) = k]]

\* hybrid_extract_words as a whole; raised = an exception left the call
hybrid_extract_words(req, nat, opt, min_text_words) ==
    LET tps == extract_words_from_pdf(req, nat)
        sparse == ToOcr(tps, min_text_words)
        dense == DenseResults(tps, min_text_words)
    IN IF sparse = <<>>
       THEN [raised |-> FALSE, results |-> SortByPageNum(dense)]
       ELSE IF OcrRaises(sparse, opt)
       THEN [raised |-> TRUE, results |-> <<>>]
       ELSE [raised |-> FALSE,
             results |-> SortByPageNum(
                 HybridChoose(dense, tps,
                              extract_words_via_ocr(sparse, opt), sparse))]

\* the lines of a page that is laid out in one column, one fragment a line:
\* group_lines joins each line's texts, normalises it and drops empty lines
PageLines(pg) ==
    SelectSeq([i \in 1..Len(pg.words) |-> norm_space(pg.words[i])],
              LAMBDA l : l # <<>>)

\* parse_document, the loop over a page's lines
RECURSIVE ScanLines(_, _, _)
ScanLines(st, pi, lns) ==
    IF lns = <<>> THEN st
    ELSE ScanLines(ScanLine(st, pi, lns[1]), pi, Tail(lns))

\* parse_document, the loop over the pages, from the pi-th page on
RECURSIVE ScanPages(_, _, _)
ScanPages(st, pi, pgs) ==
    IF pi >= Len(pgs) THEN st
    ELSE ScanPages(ScanLines([st EXCEPT !.seen_heading = FALSE], pi,
                             PageLines(pgs[pi + 1])),
                   pi + 1, pgs)

parse_document(pages_words, default_session) ==
    ScanPages([ current |-> InitialContext(default_session), rows |-> <<>>,
                audit |-> <<>>, seen_heading |-> FALSE, kind |-> "none" ],
              0, pages_words)

\* ------------------------------------------------ the extraction run

\* the parts PAGES is made of: the first page, the last page, a range that
\* is clamped at both ends, and a part that is no number
PartTexts ==
    { <<"1">>, << DigitChars[TotalPages + 1] >>, <<"0","-","9">>, <<"x">> }

RECURSIVE SeqsUpTo(_, _)
SeqsUpTo(S, n) ==
    IF n = 0 THEN { <<>> }
    ELSE LET shorter == SeqsUpTo(S, n - 1)
         IN shorter \cup {Append(q, x) : q \in shorter, x \in S}

\* the values of PAGES the run may be started with
PagesValues == {JoinComma(parts) : parts \in SeqsUpTo(PartTexts, MaxParts)}

\* the page outcomes a pass may meet: f on the pages of S, Unread elsewhere
Readings(S, outcomes) ==
    {[p \in DocPages |-> IF p \in S THEN f[p] ELSE Unread] :
        f \in [S -> outcomes]}

\* The OCR pass reads its pages in ascending order.  An exception ends the
\* pass, so the pages after it stay unread; convert_from_path returns the
\* images of a range from its first page on, so within a range a page
\* without an image is followed by pages without an image.
OcrReadings(S) ==
    {f \in Readings(S, OcrOutcomes \cup {Unread}) :
        /\ \A p \in S :
             f[p].st = "unread" <=> \E q \in S : q < p /\ f[q].st = "raise"
        /\ \A p \in S :
             (p + 1 \in S /\ f[p].st = "none")
                => f[p + 1].st \in {"none", "unread"}}

InitHybrid ==
    /\ RunIdle
    /\ NameIdle
    /\ ParserAtStart(<<>>)
    /\ LayoutIdle
    /\ RecordsIdle
    /\ hpc = "start"
    /\ pages_env \in PagesValues
    /\ sel_pages = <<>>
    /\ native = [p \in DocPages |-> Unread]
    /\ optical = [p \in DocPages |-> Unread]
    /\ text_pages = <<>>
    /\ to_ocr = <<>>
    /\ ocr_pages = <<>>
    /\ results = <<>>

\* main: get_page_count and parse_page_env
SelectPages ==
    /\ hpc = "start"
    /\ sel_pages' = parse_page_env(pages_env, <<>>, <<>>, TotalPages)
    /\ hpc' = "text"
    /\ UNCHANGED << pages_env, native, optical, text_pages, to_ocr,
                    ocr_pages, results >>
    /\ UNCHANGED besidesHybrid

\* hybrid_extract_words: the native pass over the selected pages
ExtractText ==
    /\ hpc = "text"
    /\ \E nat \in Readings(Range(Indices(sel_pages)), NativeOutcomes) :
         /\ native' = nat
         /\ text_pages' = extract_words_from_pdf(sel_pages, nat)
    /\ hpc' = "decide"
    /\ UNCHANGED << pages_env, sel_pages, optical, to_ocr, ocr_pages, results >>
    /\ UNCHANGED besidesHybrid

\* hybrid_extract_words: the loop that decides which pages go to OCR
Decide ==
    /\ hpc = "decide"
    /\ to_ocr' = ToOcr(text_pages, MinTextWords)
    /\ results' = DenseResults(text_pages, MinTextWords)
    /\ hpc' = IF to_ocr' = <<>> THEN "sort" ELSE "ocr"
    /\ UNCHANGED << pages_env, sel_pages, native, optical, text_pages,
                    ocr_pages >>
    /\ UNCHANGED besidesHybrid

\* hybrid_extract_words: the call of extract_words_via_ocr(to_ocr); its
\* exception, if any, leaves hybrid_extract_words
Ocr ==
    /\ hpc = "ocr"
    /\ \E opt \in OcrReadings(Range(to_ocr)) :
         /\ optical' = opt
         /\ IF OcrRaises(to_ocr, opt)
            THEN hpc' = "raised" /\ ocr_pages' = <<>>
            ELSE hpc' = "choose"
                 /\ ocr_pages' = extract_words_via_ocr(to_ocr, opt)
    /\ UNCHANGED << pages_env, sel_pages, native, text_pages, to_ocr, results >>
    /\ UNCHANGED besidesHybrid

\* hybrid_extract_words: the loop that keeps the richer reading of a page
Choose ==
    /\ hpc = "choose"
    /\ results' = HybridChoose(results, text_pages, ocr_pages, to_ocr)
    /\ hpc' = "sort"
    /\ UNCHANGED << pages_env, sel_pages, native, optical, text_pages,
                    to_ocr, ocr_pages >>
    /\ UNCHANGED besidesHybrid

\* hybrid_extract_words: results.sort and the return
Sort ==
    /\ hpc = "sort"
    /\ results' = SortByPageNum(results)
    /\ hpc' = "done"
    /\ UNCHANGED << pages_env, sel_pages, native, optical, text_pages,
                    to_ocr, ocr_pages >>
    /\ UNCHANGED besidesHybrid

\* main: parse_document(pages_words, default_session)
Parse ==
    /\ hpc = "done"
    /\ LET st == parse_document(results, current.session)
       IN /\ current' = st.current
          /\ rows' = st.rows
          /\ audit' = st.audit
          /\ seen_heading' = st.seen_heading
    /\ hpc' = "parsed"
    /\ UNCHANGED << page, nlines, lastLine, outcome, pageStart,
                    rowsAtPageStart, gradeLine >>
    /\ UNCHANGED << pages_env, sel_pages, native, optical, text_pages,
                    to_ocr, ocr_pages, results >>
    /\ UNCHANGED << layoutVars, recordVars, nameVars, runVars >>

NextHybrid ==
    \/ SelectPages
    \/ ExtractText
    \/ Decide
    \/ Ocr
    \/ Choose
    \/ Sort
    \/ Parse

SpecHybrid == InitHybrid /\ [][NextHybrid]_vars

\* ------------------------------------------ claims on the extraction run

\* the pages the run was asked for
Requested == Range(Indices(sel_pages))
\* the first loop of hybrid_extract_words is over
Decided == hpc \in {"ocr", "raised", "choose", "sort", "done", "parsed"}
\* hybrid_extract_words has returned
Returned == hpc \in {"done", "parsed"}
\* the entries of the returned list for page p
OutputFor(p) == {results[i] : i \in {j \in 1..Len(results) : results[j].page_num = p}}
Dense(p) == native[p].st = "ok" /\ native[p].n >= MinTextWords
Sparse(p) == native[p].st = "ok" /\ native[p].n < MinTextWords

\* C8: a page whose native fragment count reaches min_text_words is never
\* sent to OCR and is returned from the native path; a page below it is sent
\* to OCR and is returned from OCR when OCR read at least as many fragments
\* (a tie goes to OCR), from the native path otherwise.
C8_DensityDecidesThePath ==
    /\ Decided =>
         \A p \in DocPages :
            /\ Dense(p) => p \notin Range(to_ocr) /\ optical[p] = Unread
            /\ Sparse(p) => p \in Range(to_ocr)
    /\ Returned =>
         \A p \in DocPages :
            /\ Dense(p) => OutputFor(p) = {PageDict(p, native[p].n, "text")}
            /\ Sparse(p) =>
                 OutputFor(p) =
                   { IF optical[p].st = "ok" /\ optical[p].n >= native[p].n
                     THEN PageDict(p, optical[p].n, "ocr")
                     ELSE PageDict(p, native[p].n, "text") }

\* C8's case: a dense page next to a sparse page on which OCR ties
C8_Witness ==
    /\ hpc = "done"
    /\ \E p, q \in DocPages :
         /\ Dense(p) /\ ByNum(results, p).src = "text"
         /\ Sparse(q) /\ native[q].n > 0
         /\ optical[q] = [st |-> "ok", n |-> native[q].n]
         /\ ByNum(results, q).src = "ocr"

\* C9: no page's failure aborts hybrid_extract_words; a requested page that
\* does not open natively is still sent to OCR, a page OCR returns nothing
\* for keeps its native result, and every requested page is in the output,
\* with zero fragments if both paths failed on it.
C9_PageFailureIsNotFatal ==
    /\ hpc # "raised"
    /\ Decided =>
         \A p \in Requested : native[p].st = "fail" => p \in Range(to_ocr)
    /\ Returned =>
         \A p \in Requested :
            /\ OutputFor(p) # {}
            /\ (Sparse(p) /\ optical[p].st = "none")
                 => OutputFor(p) = {PageDict(p, native[p].n, "text")}
            /\ (native[p].st = "fail" /\ optical[p].st # "ok")
                 => OutputFor(p) = {PageDict(p, 0, "ocr")}

\* SESSION is unset in the extraction runs
NoSession == <<>>

\* the values of PAGES with the same parts in another order
Reordered(penv) ==
    LET parts == SplitComma(penv)
    IN {JoinComma([i \in 1..Len(parts) |-> parts[f[i]]]) :
           f \in Permutations(1..Len(parts))}

\* the run of main over this document with PAGES = penv: whether an
\* exception left it, the pages hybrid_extract_words returned, and the set of
\* records parse_document emitted
RunOf(penv) ==
    LET h == hybrid_extract_words(
                 parse_page_env(penv, <<>>, <<>>, TotalPages),
                 native, optical, MinTextWords)
    IN IF h.raised
       THEN [ raised |-> TRUE, pages |-> <<>>, records |-> {} ]
       ELSE [ raised |-> FALSE, pages |-> h.results,
              records |-> Range(parse_document(h.results, NoSession).rows) ]

\* C10: with the parts of PAGES in any other order the run returns the same
\* pages, sorted by page number whichever path produced them, and emits the
\* same set of records (or is left by the same exception).
C10_RequestOrderIsImmaterial ==
    /\ Returned =>
         \A i, j \in 1..Len(results) :
            i < j => results[i].page_num <= results[j].page_num
    /\ hpc = "parsed" =>
         \A penv \in Reordered(pages_env) :
            RunOf(penv) = [ raised |-> FALSE, pages |-> results,
                            records |-> Range(rows) ]
    /\ hpc = "raised" =>
         \A penv \in Reordered(pages_env) : RunOf(penv).raised

\* C10's case: the last page is requested before the first, one of them comes
\* from the native path and the other from OCR, and a record is emitted
C10_Witness ==
    /\ hpc = "parsed"
    /\ Len(sel_pages) = 2 /\ sel_pages[1] > sel_pages[2]
    /\ Len(results) = 2 /\ results[1].src # results[2].src
    /\ results[1].page_num < results[2].page_num
    /\ rows # <<>>

\* the duplicate-detection key of a record
RecordKey(r) == << r.surname, r.first_name, r.course_studied >>

\* C16: the records save_outputs is given by main hold no two records with
\* the same (surname, first_name, course_studied), also when a name line is
\* on two pages or a page is selected twice.
C16_PersistedRowsAreDeduplicated ==
    hpc = "parsed" =>
        \A i, j \in 1..Len(rows) :
            i < j => RecordKey(rows[i]) # RecordKey(rows[j])

\* whether parse_document leaves the line to the noise branch and audits it
Unparsed(ln) ==
    LET c == Classified[ln]
    IN c.h.has = {} /\ c.g = <<>> /\ ~c.nm.ok /\ ~IsDecorative(ln)
\* the audit entries of one returned page, under its document page number
AuditOf(pg) ==
    LET lns == SelectSeq(PageLines(pg), Unparsed)
    IN [i \in 1..Len(lns) |-> [page |-> pg.page_num, line |-> lns[i]]]
RECURSIVE AuditOfPages(_)
AuditOfPages(pgs) ==
    IF pgs = <<>> THEN <<>> ELSE AuditOf(pgs[1]) \o AuditOfPages(Tail(pgs))

\* C26: every audit entry carries the document page number of the page its
\* line came from, also when only some pages are selected.
C26_AuditPageIsDocumentPage ==
    hpc = "parsed" => audit = AuditOfPages(results)

\* the PAGES variable holds a selection
SelectionGiven == strip(pages_env) # <<>>
\* the pages the run reads and parses
Processed ==
    {text_pages[i].page_num : i \in 1..Len(text_pages)}
        \cup {results[i].page_num : i \in 1..Len(results)}

\* C28: with a page selection given, every page the run processes is named
\* by the selection and lies in 1..total_pages; a selection naming no valid
\* page does not make the run process all pages.
C28_OnlySelectedPagesAreProcessed ==
    SelectionGiven =>
        Processed \subseteq (Range(sel_pages) \cap DocPages)

\* ------------------------------------------------------ page layout

\* A fragment is a record [text, x0, x1, y0] with integer coordinates.  The
\* centres and means the clustering computes are fractions [n, d] in lowest
\* terms with d > 0; the model computes them exactly.
Abs(i) == IF i < 0 THEN 0 - i ELSE i
RECURSIVE GCD(_, _)
GCD(a, b) == IF b = 0 THEN a ELSE GCD(b, a % b)
Frac(num, den) ==
    LET g == GCD(Abs(num), den)
    IN IF num = 0 THEN [n |-> 0, d |-> 1] ELSE [n |-> num \div g, d |-> den \div g]
FracLess(a, b) == a.n * b.d < b.n * a.d
FracLeq(a, b) == a.n * b.d <= b.n * a.d
FracAdd(a, b) == Frac(a.n * b.d + b.n * a.d, a.d * b.d)
FracDist(a, b) == Frac(Abs(a.n * b.d - b.n * a.d), a.d * b.d)
RECURSIVE FracSum(_)
FracSum(fs) == IF fs = <<>> THEN Frac(0, 1) ELSE FracAdd(fs[1], FracSum(Tail(fs)))
\* np.mean of a non-empty list
FracMean(fs) == LET t == FracSum(fs) IN Frac(t.n, t.d * Len(fs))

\* (w['x0'] + w['x1']) / 2
Center(w) == Frac(w.x0 + w.x1, 2)
Centers(ws) == [i \in 1..Len(ws) |-> Center(ws[i])]

\* a stable sort of the indices of s by a strict order on its elements
SortedIndices(s, Before(_, _)) ==
    LET rank(i) ==
            Cardinality({j \in 1..Len(s) : Before(s[j], s[i])})
            + Cardinality({j \in 1..i : ~Before(s[j], s[i]) /\ ~Before(s[i], s[j])})
    IN [r \in 1..Len(s) |-> CHOOSE i \in 1..Len(s) : rank(i) = r]
StableSort(s, Before(_, _)) ==
    LET idx == SortedIndices(s, Before) IN [r \in 1..Len(s) |-> s[idx[r]]]

\* d is a power of two
RECURSIVE IsPowerOfTwo(_)
IsPowerOfTwo(d) == d = 1 \/ (d % 2 = 0 /\ IsPowerOfTwo(d \div 2))

\* A centre is a record [v, exact]: the fraction v that exact arithmetic
\* gives, and whether the floating-point value is certain to equal it.

\* np.quantile(X, j / (k + 1)) with linear interpolation: the value at the
\* position j * (n - 1) / (k + 1) of the sorted X, counted from 0.  The
\* floating-point result is certain when j / (k + 1) is a binary fraction, or
\* when the sorted values on both sides of the position are equal.
Quantile(X, j, k) ==
    LET sorted == StableSort(X, FracLess)
        pos == j * (Len(X) - 1)
        lo == pos \div (k + 1)
        r == pos % (k + 1)
        a == sorted[lo + 1]
    IN IF r = 0
       THEN [v |-> a,
             exact |-> \/ IsPowerOfTwo(k + 1)
                       \/ pos = 0
                       \/ (sorted[lo] = a /\ sorted[lo + 2] = a)]
       ELSE LET b == sorted[lo + 2]
            IN [v |-> FracAdd(a, Frac((b.n * a.d - a.n * b.d) * r,
                                      a.d * b.d * (k + 1))),
                exact |-> IsPowerOfTwo(k + 1) \/ a = b]

\* d.argmin(axis=1) for one value: the first of the nearest centres (labels
\* count from 1).  Where centres tie in exact arithmetic and one of them is
\* not certain, rounding decides, and either it or the first certain one wins.
NearestSet(x, cs) ==
    LET tied == {j \in 1..Len(cs) :
                   \A i \in 1..Len(cs) :
                      FracLeq(FracDist(x, cs[j].v), FracDist(x, cs[i].v))}
        certain == {j \in tied : cs[j].exact}
    IN (tied \ certain) \cup (IF certain = {} THEN {} ELSE {SetMin(certain)})

\* the label vectors d.argmin(axis=1) may give: equal values get equal labels
LabelChoices(X, cs) ==
    {[i \in 1..Len(X) |-> g[X[i]]] :
        g \in {h \in [Range(X) -> 1..Len(cs)] :
                 \A x \in Range(X) : h[x] \in NearestSet(x, cs)}}

\* np.allclose(a, b): |a - b| <= 1e-8 + 1e-5 * |b| for every pair, that is
\* |a - b| * 10^8 <= 1 + 10^3 * |b|
IsClose(a, b) ==
    LET dist == FracDist(a, b)
    IN dist.n * b.d <= (dist.d * (b.d + 1000 * Abs(b.n))) \div 100000000
AllClose(as, bs) == \A i \in 1..Len(as) : IsClose(as[i].v, bs[i].v)

\* X[labels == j].mean()
ClusterMean(X, labels, j) ==
    LET mem == SelectSeq([i \in 1..Len(X) |-> <<X[i], labels[i]>>],
                         LAMBDA e : e[2] = j)
        mean == FracMean([i \in 1..Len(mem) |-> mem[i][1]])
    IN [v |-> mean, exact |-> IsPowerOfTwo(mean.d)]

\* kmeans_1d, the loop: the outcomes when left iterations remain.  With an
\* empty cluster the list of new centres mixes numbers and one-element
\* arrays, np.array (or np.allclose after it) raises and the call is left by
\* the exception (ok = FALSE).
RECURSIVE KMeansLoop(_, _, _, _)
KMeansLoop(X, k, cs, left) ==
    UNION { IF \E j \in 1..k : \A i \in 1..Len(X) : labels[i] # j
            THEN {[ok |-> FALSE, labels |-> <<>>]}
            ELSE LET new_centers == [j \in 1..k |-> ClusterMean(X, labels, j)]
                 IN IF AllClose(new_centers, cs) \/ left = 1
                    THEN {[ok |-> TRUE, labels |-> labels]}
                    ELSE KMeansLoop(X, k, new_centers, left - 1)
          : labels \in LabelChoices(X, cs) }

\* the default of the parameter iters
iters == 50

\* kmeans_1d(X, k) for k >= 1 and a non-empty X: the set of its outcomes
kmeans_1d(X, k) ==
    KMeansLoop(X, k, [j \in 1..k |-> Quantile(X, j, k)], iters)

\* the sort key (w['y0'], w['x0'])
TopLeftBefore(v, w) == v.y0 < w.y0 \/ (v.y0 = w.y0 /\ v.x0 < w.x0)

\* a band order that puts the rightmost band first
BandAfter(c1, c2) ==
    /\ c2 # <<>>
    /\ c1 = <<>> \/ FracLess(FracMean(Centers(c2)), FracMean(Centers(c1)))

\* the sort key of a band: the mean of its centres, 1e9 for an empty band
\* (every centre of the model lies below 1e9)
BandBefore(c1, c2) ==
    /\ c1 # <<>>
    /\ c2 = <<>> \/ FracLess(FracMean(Centers(c1)), FracMean(Centers(c2)))

\* detect_columns after a successful clustering: the bands by label, each
\* sorted top to bottom, ordered left to right
Bands(ws, labels, k) ==
    LET byLabel == [j \in 1..k |->
                      LET idx == SelectSeq([i \in 1..Len(ws) |-> i],
                                           LAMBDA i : labels[i] = j)
                      IN StableSort([i \in 1..Len(idx) |-> ws[idx[i]]],
                                    TopLeftBefore)]
    IN StableSort(byLabel, BandBefore)

\* detect_columns, the fallback: equal thirds of the page width
Thirds(ws, page_width) ==
    [t \in 1..3 |->
        StableSort(SelectSeq(ws, LAMBDA w :
                       min(2, (3 * (w.x0 + w.x1)) \div (2 * page_width)) = t - 1),
                   TopLeftBefore)]

\* detect_columns, the loop over the candidate numbers of bands: the first
\* one whose clustering raises nothing gives the result
RECURSIVE TryClusters(_, _, _)
TryClusters(ws, ks, page_width) ==
    IF ks = <<>> THEN { Thirds(ws, page_width) }
    ELSE LET kms == kmeans_1d(Centers(ws), ks[1])
         IN {Bands(ws, km.labels, ks[1]) : km \in {o \in kms : o.ok}}
            \cup (IF \E o \in kms : ~o.ok
                  THEN TryClusters(ws, Tail(ks), page_width) ELSE {})

\* detect_columns: the set of the results the call may give (one, unless
\* rounding decides a tie); ecols = 0 stands for expected_cols = None
detect_columns(ws, page_width, ecols) ==
    IF ws = <<>> THEN { << <<>>, <<>>, <<>> >> }
    ELSE TryClusters(ws, (IF ecols # 0 THEN << ecols >> ELSE <<>>) \o << 3, 2, 1 >>,
                     page_width)

\* the default of group_lines' parameter y_gap
y_gap == 6

\* a grouping that measures the distance from the first fragment of the
\* open line
RECURSIVE GroupFromFirst(_, _, _, _)
GroupFromFirst(ws, i, closed, open) ==
    IF i > Len(ws) THEN (IF open = <<>> THEN closed ELSE Append(closed, open))
    ELSE IF i = 1 \/ Abs(ws[i].y0 - open[1].y0) <= y_gap
    THEN GroupFromFirst(ws, i + 1, closed, Append(open, ws[i]))
    ELSE GroupFromFirst(ws, i + 1, Append(closed, open), << ws[i] >>)

\* group_lines, the loop: the lines closed so far and the open line, as lists
\* of fragments, when the fragments from the i-th on remain
RECURSIVE GroupFrom(_, _, _, _)
GroupFrom(ws, i, closed, open) ==
    IF i > Len(ws) THEN (IF open = <<>> THEN closed ELSE Append(closed, open))
    ELSE IF i = 1 \/ Abs(ws[i].y0 - ws[i - 1].y0) <= y_gap
    THEN GroupFrom(ws, i + 1, closed, Append(open, ws[i]))
    ELSE GroupFrom(ws, i + 1, Append(closed, open), << ws[i] >>)

\* " ".join of the texts of a line's fragments
JoinTexts(ln) == Join([i \in 1..Len(ln) |-> ln[i].text])

group_lines(col_words) ==
    LET grouped == GroupFrom(col_words, 1, <<>>, <<>>)
        joined == [i \in 1..Len(grouped) |-> norm_space(JoinTexts(grouped[i]))]
    IN SelectSeq(joined, LAMBDA l : l # <<>>)

\* ------------------------------------------------- the layout calls

\* the number of fragments passed in
MaxWords == 5
\* the largest expected_cols
MaxCols == 3

\* the fragments of the model: three horizontal centres, three vertical
\* positions 4 apart, a text with a double space and a blank text; W1 starts
\* right of W2 and a little above it
W1 == [text |-> <<"A","B">>, x0 |-> 1, x1 |-> 1, y0 |-> 0]
W2 == [text |-> <<"C"," "," ","D">>, x0 |-> 0, x1 |-> 2, y0 |-> 4]
W3 == [text |-> <<" ">>, x0 |-> 10, x1 |-> 12, y0 |-> 8]
W4 == [text |-> <<"E","F">>, x0 |-> 20, x1 |-> 22, y0 |-> 8]
Fragments == {W1, W2, W3, W4}
\* page_width of the calls
PageWidth == 24

InitLayout ==
    /\ RunIdle
    /\ NameIdle
    /\ ParserAtStart(<<>>)
    /\ HybridIdle
    /\ RecordsIdle
    /\ lpc = "input"
    /\ words_in \in SeqsUpTo(Fragments, MaxWords)
    /\ expected_cols \in 0..MaxCols
    /\ cols = <<>>
    /\ lines_out = <<>>

\* parse_document: cols = detect_columns(words, pw)
DetectColumns ==
    /\ lpc = "input"
    /\ cols' \in detect_columns(words_in, PageWidth, expected_cols)
    /\ lpc' = "banded"
    /\ UNCHANGED << words_in, expected_cols, lines_out >>
    /\ UNCHANGED besidesLayout

\* the fragments of the bands, band after band
RECURSIVE Flatten(_)
Flatten(cs) == IF cs = <<>> THEN <<>> ELSE cs[1] \o Flatten(Tail(cs))

\* parse_document: for c in cols: lines.extend(group_lines(c))
RECURSIVE LinesOf(_)
LinesOf(cs) ==
    IF cs = <<>> THEN <<>> ELSE group_lines(cs[1]) \o LinesOf(Tail(cs))

BuildLines ==
    /\ lpc = "banded"
    /\ lines_out' = LinesOf(cols)
    /\ lpc' = "lined"
    /\ UNCHANGED << words_in, expected_cols, cols >>
    /\ UNCHANGED besidesLayout

\* a call of group_lines on the fragments as they come
GroupLines ==
    /\ lpc = "input"
    /\ lines_out' = group_lines(words_in)
    /\ lpc' = "grouped"
    /\ UNCHANGED << words_in, expected_cols, cols >>
    /\ UNCHANGED besidesLayout

NextLayout ==
    \/ DetectColumns
    \/ BuildLines
    \/ GroupLines

SpecLayout == InitLayout /\ [][NextLayout]_vars

\* ------------------------------------------- claims on the page layout

\* how often the fragment w occurs in the list ws
Occurrences(ws, w) == Cardinality({i \in 1..Len(ws) : ws[i] = w})
\* every fragment passed in is in exactly one band, as often as it came
BandsPartition ==
    \A w \in Fragments :
        Occurrences(words_in, w) = Occurrences(Flatten(cols), w)

\* C11: detect_columns loses and duplicates no fragment, and returns
\* expected_cols bands when expected_cols is given, 1, 2 or 3 bands otherwise.
C11_BandsPartitionTheFragments ==
    lpc = "banded" =>
        /\ BandsPartition
        /\ IF expected_cols # 0 THEN Len(cols) = expected_cols
           ELSE Len(cols) \in 1..3

BandMean(c) == FracMean(Centers(c))

\* C12: the bands are ordered left to right by the mean of their centres,
\* the first band is the leftmost column, and empty bands come last.
C12_BandsLeftToRight ==
    lpc = "banded" =>
        /\ \A i, j \in 1..Len(cols) :
              (i < j /\ cols[i] # <<>> /\ cols[j] # <<>>)
                 => FracLeq(BandMean(cols[i]), BandMean(cols[j]))
        /\ \A i, j \in 1..Len(cols) : (i < j /\ cols[i] = <<>>) => cols[j] = <<>>
        /\ words_in # <<>> =>
              /\ cols[1] # <<>>
              /\ \A j \in 1..Len(cols) :
                    cols[j] # <<>> => FracLeq(BandMean(cols[1]), BandMean(cols[j]))

\* C12's case: three columns, passed in from right to left
C12_Witness ==
    /\ lpc = "banded"
    /\ words_in = << W4, W3, W1 >>
    /\ cols = << << W1 >>, << W3 >>, << W4 >> >>

\* the fragments fall into two groups by their centre
TwoGroups == Cardinality({Center(words_in[i]) : i \in 1..Len(words_in)}) = 2
LeftGroup ==
    SelectSeq(words_in, LAMBDA w : \A i \in 1..Len(words_in) :
                                      FracLeq(Center(w), Center(words_in[i])))
RightGroup ==
    SelectSeq(words_in, LAMBDA w : \A i \in 1..Len(words_in) :
                                      FracLeq(Center(words_in[i]), Center(w)))

\* C13: with expected_cols = 2 and two well-separated groups of centres the
\* result is two non-empty bands, the left group first, whatever the sizes
\* of the groups.
C13_TwoGroupsTwoBands ==
    (lpc = "banded" /\ expected_cols = 2 /\ TwoGroups) =>
        /\ Len(cols) = 2
        /\ Range(cols[1]) = Range(LeftGroup) /\ Len(cols[1]) = Len(LeftGroup)
        /\ Range(cols[2]) = Range(RightGroup) /\ Len(cols[2]) = Len(RightGroup)

\* the fragments that start a line: the first, and every one whose vertical
\* start is more than y_gap from that of the fragment before it
LineStarts ==
    {i \in 1..Len(words_in) :
        i = 1 \/ Abs(words_in[i].y0 - words_in[i - 1].y0) > y_gap}
\* the fragments of the line that starts at i
LineFrom(i) ==
    SubSeq(words_in, i,
           SetMin({j \in i..Len(words_in) : (j + 1) \notin 1..Len(words_in)
                                             \/ (j + 1) \in LineStarts}))
RawLines ==
    LET starts == SortedSet(LineStarts)
    IN [r \in 1..Len(starts) |-> norm_space(JoinTexts(LineFrom(starts[r])))]
\* the whitespace-separated tokens of a list of texts, in order
RECURSIVE Tokens(_)
Tokens(texts) ==
    IF texts = <<>> THEN <<>> ELSE Split(texts[1]) \o Tokens(Tail(texts))

\* C14: a fragment joins the open line exactly when its vertical start is
\* within y_gap of that of the fragment before it; the lines come in input
\* order, normalised, without the blank ones, and their tokens are the
\* tokens of the fragments' texts in input order.
C14_GreedyLines ==
    lpc = "grouped" =>
        /\ lines_out = SelectSeq(RawLines, LAMBDA l : l # <<>>)
        /\ \A i \in 1..Len(lines_out) : lines_out[i] = norm_space(lines_out[i])
        /\ Tokens(lines_out)
             = Tokens([i \in 1..Len(words_in) |-> words_in[i].text])

\* C14's case: the third fragment is more than y_gap below the first and
\* still on its line, the fourth starts a line, the fifth is a blank line
C14_Witness ==
    /\ lpc = "grouped"
    /\ words_in = << W1, W2, W3, W1, W3 >>
    /\ lines_out = << <<"A","B"," ","C"," ","D">>, <<"A","B">> >>

\* the lines of a band, as lists of the fragments with a token
FragmentLinesOf(band) ==
    LET lns == GroupFrom(band, 1, <<>>, <<>>)
    IN [r \in 1..Len(lns) |-> SelectSeq(lns[r], LAMBDA w : Split(w.text) # <<>>)]

\* C29: in every line group_lines builds from a band that detect_columns
\* returned, the tokens come left to right: the x0 of their fragments does
\* not decrease.
C29_LinesReadLeftToRight ==
    lpc = "banded" =>
        \A b \in 1..Len(cols) :
            LET lns == FragmentLinesOf(cols[b])
            IN \A r \in 1..Len(lns) :
                  \A i, j \in 1..Len(lns[r]) :
                      i < j => lns[r][i].x0 <= lns[r][j].x0

\* C30: without expected_cols and with at least one fragment, detect_columns
\* returns the clustering into 3 bands.
C30_ThreeBandsWithoutExpectedCols ==
    (lpc = "banded" /\ expected_cols = 0 /\ words_in # <<>>) => Len(cols) = 3

\* ------------------------------------- record normalizer and deduplicator

\* A raw record and a context are dicts: functions from keys to values.  A
\* value is a text or None; a cell of a table read from CSV is a text or NaN.
None == << "None" >>
NaN == << "NaN" >>

\* the record fields, in the order of the table columns
ColumnOrder ==
    << "surname", "first_name", "other_name", "course_studied",
       "faculty", "grade", "qualification_obtained", "session" >>
Columns == Range(ColumnOrder)
\* keys of _fill_missing_from_context and _update_context_from_records
ContextKeys == {"faculty", "course_studied", "qualification_obtained", "grade"}

\* dict.get(k)
Get(d, k) == IF k \in DOMAIN d THEN d[k] ELSE None

\* _is_nonempty: bool(value) and str(value).strip() != ""
_is_nonempty(value) == value # None /\ value # <<>> /\ strip(value) # <<>>

\* a back-fill that takes the context value whenever there is one
FillAlways(rec, ctx) ==
    LET fill == {k \in ContextKeys : _is_nonempty(Get(ctx, k))}
    IN [k \in DOMAIN rec \cup fill |-> IF k \in fill THEN ctx[k] ELSE rec[k]]

\* _fill_missing_from_context, one record: r = dict(rec), then r[k] =
\* context.get(k) for each key whose value is empty while the context's is not
FillOne(rec, ctx) ==
    LET fill == {k \in ContextKeys :
                    ~_is_nonempty(Get(rec, k)) /\ _is_nonempty(Get(ctx, k))}
    IN [k \in DOMAIN rec \cup fill |-> IF k \in fill THEN ctx[k] ELSE rec[k]]

_fill_missing_from_context(recs, ctx) ==
    [i \in 1..Len(recs) |-> FillOne(recs[i], ctx)]

\* _update_context_from_records: the last non-empty value of each key
RECURSIVE _update_context_from_records(_, _)
_update_context_from_records(recs, ctx) ==
    IF recs = <<>> THEN ctx
    ELSE LET rec == recs[1]
             seen == {k \in ContextKeys : _is_nonempty(Get(rec, k))}
         IN _update_context_from_records(
                Tail(recs),
                [k \in DOMAIN ctx \cup seen |->
                    IF k \in seen THEN rec[k] ELSE ctx[k]])

\* str.title(): a letter after a letter is lower-cased, any other letter
\* upper-cased
Title(t) ==
    [i \in 1..Len(t) |->
        IF i > 1 /\ IsAlpha(t[i - 1]) THEN LowerChar(t[i]) ELSE UpperChar(t[i])]

\* _clean: "" for None, stripped, then upper- or title-cased when asked
_clean(value, case) ==
    LET t == strip(IF value = None THEN <<>> ELSE value)
    IN IF case = "upper" THEN Upper(t)
       ELSE IF case = "title" THEN Title(t)
       ELSE t

\* StudentRecord(...) as post_process_records builds it: an instance of the
\* dataclass, which is not a dict
StudentRecord(record, session) ==
    [ class                  |-> "StudentRecord",
      surname                |-> _clean(Get(record, "surname"), "upper"),
      first_name             |-> _clean(Get(record, "first_name"), "title"),
      other_name             |-> _clean(Get(record, "other_name"), "title"),
      course_studied         |-> _clean(Get(record, "course_studied"), "none"),
      faculty                |-> _clean(Get(record, "faculty"), "none"),
      grade                  |-> _clean(Get(record, "grade"), "none"),
      qualification_obtained |-> _clean(Get(record, "qualification_obtained"), "none"),
      session                |-> session ]

\* StudentRecord.validate: surname and first name are not blank
validate(student) ==
    /\ student.surname # <<>> /\ strip(student.surname) # <<>>
    /\ student.first_name # <<>> /\ strip(student.first_name) # <<>>

\* StudentRecord.to_dict: asdict(self), the dict of the fields
to_dict(student) == [k \in DOMAIN student \ {"class"} |-> student[k]]

\* whether record.get(...) can be called: a dict has it, a StudentRecord
\* raises AttributeError
HasGet(record) == "class" \notin DOMAIN record

\* f"{student.surname}_{student.first_name}_{student.course_studied}"
student_key(student) ==
    student.surname \o << "_" >> \o student.first_name \o << "_" >>
        \o student.course_studied

\* post_process_records, the loop: seen_students and processed_records
RECURSIVE PostProcessFrom(_, _, _, _, _)
PostProcessFrom(recs, i, session, seen, processed) ==
    IF i > Len(recs) THEN processed
    ELSE LET student == StudentRecord(recs[i], session)
         IN IF ~HasGet(recs[i])
            THEN \* except Exception: invalid_records += 1
                 PostProcessFrom(recs, i + 1, session, seen, processed)
            ELSE IF ~validate(student)
            THEN PostProcessFrom(recs, i + 1, session, seen, processed)
            ELSE IF student_key(student) \in seen
            THEN PostProcessFrom(recs, i + 1, session, seen, processed)
            ELSE PostProcessFrom(recs, i + 1, session,
                                 seen \cup {student_key(student)},
                                 Append(processed, student))

post_process_records(recs, session) == PostProcessFrom(recs, 1, session, {}, <<>>)

\* pd.concat(frames, ignore_index=True): the rows of the frames in order,
\* over the union of their columns, NaN where a frame lacks a column
concat(fs) ==
    LET rws == Flatten(fs)
        columns == UNION {DOMAIN rws[i] : i \in 1..Len(rws)}
    IN [i \in 1..Len(rws) |->
           [c \in columns |-> IF c \in DOMAIN rws[i] THEN rws[i][c] ELSE NaN]]

\* Series.astype(str) on a cell
astype_str(v) == IF v = NaN THEN <<"n","a","n">> ELSE v

\* aggregate_results.main: every column of cols normalised, '' for a column
\* the table lacks, and the table cut to cols
NormalizeColumns(df) ==
    [i \in 1..Len(df) |->
        [c \in Columns |->
            IF c \in DOMAIN df[i] THEN norm_space(astype_str(df[i][c]))
            ELSE <<>>]]

\* DataFrame.drop_duplicates(): the first of the rows equal in every column
drop_duplicates(df) ==
    LET keep == {i \in 1..Len(df) : \A j \in 1..(i - 1) : df[j] # df[i]}
        order == SortedSet(keep)
    IN [r \in 1..Len(order) |-> df[order[r]]]

\* aggregate_results.main, the step "normalize columns and deduplicate"
NormalizeAndDeduplicate(df) == drop_duplicates(NormalizeColumns(df))

\* ------------------------------------------- post-processing and aggregation

MaxRecords == 3
MaxChunkRows == 2

\* a record as the page extraction returns it
RawRecord(surname, first_name, course_studied) ==
    [ surname |-> surname, first_name |-> first_name, other_name |-> None,
      course_studied |-> course_studied, faculty |-> <<>>, grade |-> <<" ">>,
      qualification_obtained |-> <<"H","N","D">> ]
RawRecords ==
    { RawRecord(<<" ","d","o","e">>, <<"j","a","n","e"," "," ","a","n","n">>, <<"X">>),
      RawRecord(<<"D","O","E">>, <<"J","a","n","e"," "," ","A","n","n"," ">>, <<"X">>),
      RawRecord(<<"A","_","B">>, <<"C">>, <<"X">>),
      RawRecord(<<"A">>, <<"B","_","C">>, <<"X">>),
      RawRecord(None, <<"J","a","n","e">>, <<"X">>),
      [ surname |-> <<"D","O","E">>, first_name |-> <<"j","a","n","e"," "," ","a","n","n">>, course_studied |-> None ] }
\* the contexts kept from earlier pages
Contexts ==
    { [k \in ContextKeys |-> None],
      [ faculty |-> <<"S","c","i","e","n","c","e">>, course_studied |-> <<"X">>,
        qualification_obtained |-> <<"O","N","D">>, grade |-> <<"P","a","s","s">> ],
      [ faculty |-> <<" ">>, course_studied |-> <<"Y">>, grade |-> <<>> ] }
Sessions == { <<"2","0","2","1","/","2","0","2","2">> }

\* a row of a chunk table as pd.read_csv returns it (an empty cell is NaN)
ChunkRow(first_name, grade) ==
    [ surname |-> <<"D","O","E">>, first_name |-> first_name, other_name |-> NaN,
      course_studied |-> <<"B",".","S","c">>, faculty |-> <<"S","c","i","e","n","c","e">>, grade |-> grade,
      qualification_obtained |-> <<"B",".","S","c">>, session |-> <<"2","0","2","1","/","2","0","2","2">> ]
ChunkRows ==
    { ChunkRow(<<"J","a","n","e">>, <<"P","a","s","s">>), ChunkRow(<<"J","a","n","e">>, NaN),
      ChunkRow(<<"J","a","n","e"," "," ","A","n","n">>, <<"P","a","s","s">>), ChunkRow(<<"J","a","n","e"," ","A","n","n">>, <<"P","a","s","s">>) }

InitRecords ==
    /\ RunIdle
    /\ NameIdle
    /\ ParserAtStart(<<>>)
    /\ HybridIdle
    /\ LayoutIdle
    /\ all_records = <<>>
    /\ processed_records = <<>>
    /\ df_all = <<>>
    /\ \/ /\ rpc = "input"
          /\ page_records \in SeqsUpTo(RawRecords, MaxRecords)
          /\ page_context \in Contexts
          /\ last_context = page_context
          /\ calls = 1
          /\ self_session \in Sessions
          /\ frames = <<>>
       \/ /\ rpc = "chunks"
          /\ page_records = <<>>
          /\ page_context = <<>>
          /\ last_context = <<>>
          /\ calls = 0
          /\ self_session = <<>>
          /\ frames \in {<< a, b >> : a, b \in SeqsUpTo(ChunkRows, MaxChunkRows)}

\* extract_from_pdf, a page: back-fill, context update, all_records.extend
FillPage ==
    /\ rpc = "input"
    /\ LET records == _fill_missing_from_context(page_records, page_context)
       IN /\ page_context' = _update_context_from_records(records, page_context)
          /\ all_records' = all_records \o records
    /\ last_context' = page_context'
    /\ rpc' = "filled"
    /\ UNCHANGED << page_records, self_session, processed_records, frames, df_all,
                    calls >>
    /\ UNCHANGED besidesRecords

\* extract_from_pdf: processed_records = self.post_process_records(all_records)
PostProcess ==
    /\ rpc = "filled"
    /\ processed_records' = post_process_records(all_records, self_session)
    /\ rpc' = "processed"
    /\ UNCHANGED << page_records, page_context, self_session, all_records,
                    frames, df_all, last_context, calls >>
    /\ UNCHANGED besidesRecords

\* aggregate_results.main: concat, normalize, drop duplicates
Aggregate ==
    /\ rpc = "chunks"
    /\ df_all' = NormalizeAndDeduplicate(concat(frames))
    /\ rpc' = "aggregated"
    /\ UNCHANGED << page_records, page_context, self_session, all_records,
                    processed_records, frames, last_context, calls >>
    /\ UNCHANGED besidesRecords

NextRecords ==
    \/ FillPage
    \/ PostProcess
    \/ Aggregate

SpecRecords == InitRecords /\ [][NextRecords]_vars

\* ------------------------------------- calls on one extractor instance

\* bounds of the calls explored
MaxCalls == 2
MaxCallRecords == 2

\* self.last_context as __init__ sets it
FreshContext == [k \in ContextKeys |-> None]

\* a new extractor, no call made yet
InitInstance ==
    /\ RunIdle
    /\ NameIdle
    /\ ParserAtStart(<<>>)
    /\ HybridIdle
    /\ LayoutIdle
    /\ rpc = "new"
    /\ last_context = FreshContext
    /\ calls = 0
    /\ self_session \in Sessions
    /\ page_records = <<>>
    /\ page_context = <<>>
    /\ all_records = <<>>
    /\ processed_records = <<>>
    /\ frames = <<>>
    /\ df_all = <<>>

\* extract_from_pdf is called, for the first time or after an earlier call
\* returned: all_records = [], page_context = dict(self.last_context), and
\* extract_from_page returns the records of the document's page
BeginCall ==
    /\ rpc \in {"new", "processed"}
    /\ calls < MaxCalls
    /\ calls' = calls + 1
    /\ all_records' = <<>>
    /\ processed_records' = <<>>
    /\ page_context' = last_context
    /\ page_records' \in SeqsUpTo(RawRecords, MaxCallRecords)
    /\ rpc' = "input"
    /\ UNCHANGED << self_session, frames, df_all, last_context >>
    /\ UNCHANGED besidesRecords

NextInstance ==
    \/ BeginCall
    \/ FillPage
    \/ PostProcess

SpecInstance == InitInstance /\ [][NextInstance]_vars

\* --------------------------------------------------- claims on the records

\* the cleaned records that pass validate, in input order
ValidStudents ==
    SelectSeq([i \in 1..Len(all_records) |->
                  StudentRecord(all_records[i], self_session)],
              validate)
\* of the records with the same key, the first
FirstOfEachKey(rs) ==
    LET keep == {i \in 1..Len(rs) :
                    \A j \in 1..(i - 1) : RecordKey(rs[j]) # RecordKey(rs[i])}
        order == SortedSet(keep)
    IN [r \in 1..Len(order) |-> rs[order[r]]]

\* C15: post_process_records returns no two records with the same cleaned
\* (surname, first_name, course_studied); of the records with one key it
\* keeps the first, and it drops no record whose key differs from the keys
\* of the records before it.
C15_ExactDuplicatesOnly ==
    rpc = "processed" =>
        /\ \A i, j \in 1..Len(processed_records) :
              i < j => RecordKey(processed_records[i])
                          # RecordKey(processed_records[j])
        /\ processed_records = FirstOfEachKey(ValidStudents)

\* a text without leading, trailing or repeated whitespace
Collapsed(t) == t = norm_space(t)

\* C17: every field of every record post_process_records returns, and every
\* cell of the aggregated table, has its whitespace collapsed.
C17_WhitespaceCollapsed ==
    /\ rpc = "processed" =>
          \A i \in 1..Len(processed_records) :
             \A k \in Columns : Collapsed(processed_records[i][k])
    /\ rpc = "aggregated" =>
          \A i \in 1..Len(df_all) : \A k \in Columns : Collapsed(df_all[i][k])

\* C18: the aggregated table holds at most one row for each normalised
\* (surname, first_name, course_studied), whatever the other fields are.
C18_OneRowPerKey ==
    rpc = "aggregated" =>
        \A i, j \in 1..Len(df_all) :
            i < j => RecordKey(df_all[i]) # RecordKey(df_all[j])

\* C19: post_process_records applied to its own output, and the aggregation
\* step applied to its own output, return that output, in the same order.
C19_Idempotent ==
    /\ rpc = "processed" =>
          post_process_records(processed_records, self_session)
             = processed_records
    /\ rpc = "aggregated" => NormalizeAndDeduplicate(df_all) = df_all

\* a value the back-fill takes for missing
Blank(v) == v = None \/ strip(v) = <<>>
\* after is before, but for blank context fields given the context's
\* non-blank value
KeptOrFilled(before, ctx, after) ==
    /\ \A k \in DOMAIN before \ ContextKeys :
          k \in DOMAIN after /\ after[k] = before[k]
    /\ (DOMAIN after \ ContextKeys) \subseteq DOMAIN before
    /\ \A k \in ContextKeys :
          \/ /\ k \in DOMAIN before <=> k \in DOMAIN after
             /\ k \in DOMAIN before => after[k] = before[k]
          \/ /\ Blank(Get(before, k))
             /\ ~Blank(Get(ctx, k))
             /\ k \in DOMAIN after /\ after[k] = ctx[k]

\* C20: the back-fill returns every record with its non-blank fields and the
\* fields other than faculty, course_studied, qualification_obtained and
\* grade as they were, and fills a blank field only from a non-blank context
\* value.
C20_BackFillKeepsWhatIsThere ==
    [][(rpc = "input" /\ rpc' = "filled") =>
          /\ Len(all_records') = Len(page_records)
          /\ \A i \in 1..Len(page_records) :
                KeptOrFilled(page_records[i], page_context, all_records'[i])]_vars

\* C20's case: a record whose qualification is kept against the context's,
\* whose faculty and grade are filled, and whose missing other fields stay
C20_Witness ==
    /\ rpc = "filled"
    /\ page_records = << RawRecord(<<"A">>, <<"B","_","C">>, <<"X">>) >>
    /\ all_records[1].qualification_obtained = <<"H","N","D">>
    /\ all_records[1].faculty = <<"S","c","i","e","n","c","e">>
    /\ all_records[1].grade = <<"P","a","s","s">>
    /\ all_records[1].other_name = None

\* the value of the key k the context should carry after a page: the last
\* non-empty one the extractor returned on the page, else the one carried in
ReturnedAt(recs, k) == {i \in 1..Len(recs) : _is_nonempty(Get(recs[i], k))}
CarriedAfter(recs, ctx, k) ==
    IF ReturnedAt(recs, k) = {} THEN Get(ctx, k)
    ELSE Get(recs[SetMax(ReturnedAt(recs, k))], k)

\* C27: after a page the carried context holds, for faculty, course_studied,
\* qualification_obtained and grade, the last non-empty value the extractor
\* returned for the key on the page, and the value carried in when the page
\* returned none; a blank field after a new value does not bring the
\* previous page's value back.
C27_ContextIsLastReturned ==
    [][(rpc = "input" /\ rpc' = "filled") =>
          \A k \in ContextKeys :
              Get(page_context', k) = CarriedAfter(page_records, page_context, k)]_vars

\* what extract_from_pdf returns for the page on an extractor that has
\* processed no other document
FreshRun(recs, session) ==
    post_process_records(_fill_missing_from_context(recs, FreshContext), session)

\* C23: the records of a document do not depend on the documents processed
\* before it: a call of extract_from_pdf returns what a new extractor
\* returns for the same pages, also when it is the second call on the
\* same extractor.
C23_CallsAreIndependent ==
    rpc = "processed" => processed_records = FreshRun(page_records, self_session)

\* ------------------------------------------------------------ parse_name

\* bound of the lines explored
MaxTokens == 3

\* the tokens a line is made of: surnames in capitals, one with an
\* apostrophe and a hyphen, a given name, initials, a one-letter word in
\* capitals and a digit
NameTokens ==
    { <<"A","K","P","A","N">>, <<"O","'","N","E","I","L","-","U","D","O">>, <<"J","o","h","n">>, <<"J">>, <<"A">>, <<"5">> }

\* the lines: one to MaxTokens tokens with single spaces between them
NameLines == {Join(q) : q \in SeqsUpTo(NameTokens, MaxTokens) \ {<<>>}}

InitName ==
    /\ RunIdle
    /\ ParserAtStart(<<>>)
    /\ HybridIdle
    /\ LayoutIdle
    /\ RecordsIdle
    /\ npc = "input"
    /\ name_line \in NameLines
    /\ name_out = <<>>

\* parse_name(line)
ParseName ==
    /\ npc = "input"
    /\ name_out' = parse_name(name_line)
    /\ npc' = "returned"
    /\ UNCHANGED name_line
    /\ UNCHANGED besidesName

NextName == ParseName

SpecName == InitName /\ [][NextName]_vars

\* ---------------------------------------------------- claims on parse_name

\* the rejection rules of parse_name: a heading or grade line, a line with a
\* decoration word, a line most of whose words are stop words
Rejected(ln) ==
    \/ FACULTY_PAT(ln) \/ QUALI_PAT(ln).ok \/ is_grade(ln) # <<>>
    \/ \E d \in Decorations : Contains(Upper(ln), d)
    \/ LET toks == Split(ln)
           hits == {i \in 1..Len(toks) : Upper(toks[i]) \in NOISE_STOPWORDS}
       IN 10 * Cardinality(hits) >= 6 * Len(toks)

\* what the claim says of a line made of the tokens toks, given which tokens
\* count as all-uppercase and which as too short for a first name
NameByRun(toks, caps(_), short(_)) ==
    LET n   == Len(toks)
        run == CHOOSE k \in 0..n :
                   /\ \A i \in 1..k : caps(toks[i])
                   /\ k < n => ~caps(toks[k + 1])
    IN IF run = 0 THEN NoName
       ELSE IF run = n
            THEN IF n >= 2
                 THEN Name(toks[1], toks[2], Join(SubSeq(toks, 3, n)))
                 ELSE NoName
       ELSE IF n = run + 1 /\ short(toks[n]) THEN NoName
       ELSE Name(Join(SubSeq(toks, 1, run)), toks[run + 1],
                 Join(SubSeq(toks, run + 2, n)))

\* a token of capitals, hyphens and apostrophes
AllCaps(t) ==
    /\ t # <<>>
    /\ \A i \in 1..Len(t) : IsUpper(t[i]) \/ t[i] \in {"-", "'"}
    /\ \E i \in 1..Len(t) : IsUpper(t[i])
\* a token of two or more characters, a capital first, then capitals,
\* hyphens and apostrophes
CapsWord(t) == AllCaps(t) /\ Len(t) >= 2 /\ IsUpper(t[1])
SingleLetter(t) == Len(t) = 1 /\ IsAlpha(t[1])
SingleCharacter(t) == Len(t) = 1

\* the call returned for a line without a comma that no rejection rule took
CommaFreeNameLine ==
    /\ npc = "returned"
    /\ ~("," \in Range(name_line))
    /\ ~Rejected(name_line)

\* C24 as stated: the longest leading run of all-uppercase tokens (capitals,
\* hyphens, apostrophes) is the surname, the next token the first name, the
\* remainder the other name; a line of two or more tokens that are all
\* all-uppercase gives the first as surname and the second as first name; no
\* leading run, or a sole remaining token of one letter, gives no name.
C24_RunOfCapitalsIsSurname ==
    CommaFreeNameLine =>
        name_out = NameByRun(Split(name_line), AllCaps, SingleLetter)

\* C24 amended: the same with an all-uppercase token being one of two or
\* more characters that begins with a capital letter, and with no name
\* returned when the sole remaining token is a single character of any kind
\* or when the line is a single all-uppercase token.
C24_RunOfCapitalWordsIsSurname ==
    CommaFreeNameLine =>
        name_out = NameByRun(Split(name_line), CapsWord, SingleCharacter)

\* C24's case: two surname tokens, the second with apostrophe and hyphen,
\* before a given name
C24_Witness ==
    /\ npc = "returned"
    /\ name_line = <<"A","K","P","A","N"," ","O","'","N","E","I","L","-","U","D","O"," ","J","o","h","n">>
    /\ name_out = Name(<<"A","K","P","A","N"," ","O","'","N","E","I","L","-","U","D","O">>, <<"J","o","h","n">>, <<>>)

\* ------------------------------------------------------- the three mains

\* bounds of the runs explored
MaxRunRows == 2
MaxDocPages == 1

Programs == {"extract", "run_agent", "aggregate"}

\* what requests.post does: the app accepts, the app answers with an error
\* status, or the call raises (connection refused, timeout)
Outcomes == {"accepted", "rejected", "exception"}

\* the status of the process still running
Running == -1
\* no file written yet
NoFiles == <<>>
NoSummary == [status |-> "none", rows |-> 0]

\* requests.post called outside any try: its exception leaves the caller
Post(answer) == [escapes |-> answer = "exception"]

\* try: requests.post(...) except Exception as e: print(...)
TryPost(answer) == [escapes |-> FALSE]

InitRun ==
    /\ ParserAtStart(<<>>)
    /\ HybridIdle
    /\ LayoutIdle
    /\ RecordsIdle
    /\ NameIdle
    /\ prog \in Programs
    /\ mpc = "start"
    /\ run_env \in [ api_key : BOOLEAN, source : BOOLEAN, chunks : BOOLEAN,
                      upload_url : BOOLEAN, callback_url : BOOLEAN ]
    /\ doc_pages = -1
    /\ run_rows = -1
    /\ disk = NoFiles
    /\ attempts = <<>>
    /\ run_summary = NoSummary
    /\ exit_status = Running
    /\ said_reason = FALSE
    /\ escaped = FALSE

\* the process ends: status and whether a reason was printed
Ends(status, reason, exception) ==
    /\ mpc' = "ended"
    /\ exit_status' = status
    /\ said_reason' = reason
    /\ escaped' = exception

StillRunning == UNCHANGED << exit_status, said_reason, escaped >>

\* main up to the document being at hand.  extract.py: without SOURCE_URL
\* and SOURCE_FILE main prints and returns 2, which the script's last line
\* main() drops; run_agent.py: without key or source main returns 2 into
\* raise SystemExit(main()); aggregate_results.py: without chunk tables
\* raise SystemExit(message).  A download may raise in raise_for_status.
ResolveSource ==
    /\ mpc = "start"
    /\ \/ /\ prog = "extract"
          /\ IF ~run_env.source THEN Ends(0, TRUE, FALSE)
             ELSE \E downloaded \in BOOLEAN :
                      IF downloaded THEN mpc' = "sourced" /\ StillRunning
                      ELSE Ends(1, TRUE, TRUE)
       \/ /\ prog = "run_agent"
          /\ IF ~run_env.api_key \/ ~run_env.source THEN Ends(2, TRUE, FALSE)
             ELSE \E downloaded \in BOOLEAN :
                      IF downloaded THEN mpc' = "sourced" /\ StillRunning
                      ELSE Ends(1, TRUE, TRUE)
       \/ /\ prog = "aggregate"
          /\ IF ~run_env.chunks THEN Ends(1, TRUE, TRUE)
             ELSE mpc' = "sourced" /\ StillRunning
    /\ UNCHANGED << prog, run_env, doc_pages, run_rows, disk, attempts, run_summary >>
    /\ UNCHANGED besidesRun

\* the processing.  extract.py: get_page_count, hybrid_extract_words,
\* parse_document, a document without pages giving no rows; run_agent.py:
\* extract_from_pdf, whose df[column_order] raises on a table without
\* columns, the one built from no records; aggregate_results.py: concat,
\* normalisation, drop_duplicates.
Process ==
    /\ mpc = "sourced"
    /\ \E p \in 0..MaxDocPages, n \in 0..MaxRunRows :
          /\ prog = "extract" => (p = 0 => n = 0)
          /\ prog # "extract" => p = 0
          /\ doc_pages' = IF prog = "extract" THEN p ELSE doc_pages
          /\ run_rows' = n
          /\ IF prog = "run_agent" /\ n = 0 THEN Ends(1, TRUE, TRUE)
             ELSE mpc' = "processed" /\ StillRunning
    /\ UNCHANGED << prog, run_env, disk, attempts, run_summary >>
    /\ UNCHANGED besidesRun

\* save_outputs (df.to_csv, to_excel) and summary = {'status': 'success', ...}
Save ==
    /\ mpc = "processed"
    /\ disk' = [rows |-> run_rows]
    /\ attempts' = Append(attempts, <<"save", "written">>)
    /\ run_summary' = [status |-> "success", rows |-> run_rows]
    /\ mpc' = "saved"
    /\ StillRunning
    /\ UNCHANGED << prog, run_env, doc_pages, run_rows >>
    /\ UNCHANGED besidesRun

\* upload_results: nothing without RESULT_UPLOAD_URL, else the post inside
\* try / except Exception
Upload ==
    /\ mpc = "saved"
    /\ IF ~run_env.upload_url
       THEN /\ attempts' = attempts
            /\ mpc' = "uploaded" /\ StillRunning
       ELSE \E answer \in Outcomes :
                /\ attempts' = Append(attempts, <<"upload", answer>>)
                /\ IF TryPost(answer).escapes THEN Ends(1, TRUE, TRUE)
                   ELSE mpc' = "uploaded" /\ StillRunning
    /\ UNCHANGED << prog, run_env, doc_pages, run_rows, disk, run_summary >>
    /\ UNCHANGED besidesRun

\* the callback, inside try / except Exception when CALLBACK_URL is set, and
\* the end of main: status 0
Callback ==
    /\ mpc = "uploaded"
    /\ IF ~run_env.callback_url
       THEN /\ attempts' = attempts
            /\ Ends(0, FALSE, FALSE)
       ELSE \E answer \in Outcomes :
                /\ attempts' = Append(attempts, <<"callback", answer>>)
                /\ IF TryPost(answer).escapes THEN Ends(1, TRUE, TRUE)
                   ELSE Ends(0, FALSE, FALSE)
    /\ UNCHANGED << prog, run_env, doc_pages, run_rows, disk, run_summary >>
    /\ UNCHANGED besidesRun

NextRun ==
    \/ ResolveSource
    \/ Process
    \/ Save
    \/ Upload
    \/ Callback

SpecRun == InitRun /\ [][NextRun]_vars

\* ---------------------------------------------------- claims on the runs

Deliveries == {"upload", "callback"}
\* the step made a delivery attempt
Delivered ==
    /\ Len(attempts') = Len(attempts) + 1
    /\ attempts'[Len(attempts')][1] \in Deliveries

\* C21: in each of the three mains the result files are written before the
\* first upload or callback is attempted, no step changes or removes the
\* files once written, and an upload or callback that fails (error status or
\* exception) does not raise out of main.
C21_SavedBeforeDelivery ==
    [][ /\ \A i \in 1..Len(attempts') :
              attempts'[i][1] \in Deliveries =>
                  \E j \in 1..(i - 1) : attempts'[j][1] = "save"
        /\ Delivered => disk # NoFiles
        /\ disk # NoFiles => disk' = disk
        /\ Delivered => (~escaped' /\ exit_status' \in {Running, 0}) ]_vars

\* C21's case: the records were written, the upload raised, the callback
\* raised, and main ended normally with the files as written
C21_Witness ==
    /\ mpc = "ended" /\ exit_status = 0 /\ ~escaped
    /\ attempts = << <<"save", "written">>, <<"upload", "exception">>,
                     <<"callback", "exception">> >>
    /\ disk = [rows |-> run_rows] /\ run_rows >= 1

\* C22: a run of extract.py with no source, with a document of no pages or
\* with no record at the end ends with a status other than 0 and a reason,
\* and its summary does not say success.
C22_WholeDocumentFailureIsReported ==
    ( /\ prog = "extract" /\ mpc = "ended"
      /\ (~run_env.source \/ doc_pages = 0 \/ run_rows = 0) )
        => ( /\ exit_status # 0
             /\ said_reason
             /\ run_summary.status # "success" )

=============================================================================
